---- MODULE Spec2Model ----
(***************************************************************************)
(* Dish Delight API server (src/index.js): the user store and the item     *)
(* store behind the register / login / oauth handlers, the bearer guard    *)
(* and the owner-scoped product handlers.  Every handler is cut at its     *)
(* awaits on the persistence layer: one action per persistence call, each  *)
(* call atomic, handlers of different requests interleaving freely.        *)
(***************************************************************************)
EXTENDS Integers, Sequences, FiniteSets, TLC

VARIABLES
  users,    \* usersCollection: set of user documents
  items,    \* itemsCollection: set of item documents
  now,      \* the wall clock read by new Date() and by jwt, in days
  userSeq,  \* number of the next ObjectId handed out for a user document
  itemSeq,  \* number of the next ObjectId handed out for an item document
  tokens,   \* bearer tokens the clients hold (taken from responses)
  reqs      \* the requests being handled: slot -> handler position and locals

vars == <<users, items, now, userSeq, itemSeq, tokens, reqs>>

(***************************************************************************)
(* Bounds of the model.                                                    *)
(***************************************************************************)
MaxUsers == 2
MaxItems == 2
MaxTime == 8
MaxTokens == 2

\* The two requests that may be in flight at the same time.
Slots == {"r1", "r2"}

(***************************************************************************)
(* Configuration and program constants.                                    *)
(***************************************************************************)
INTERNAL_API_KEY == "dev-internal-key"
JWT_SECRET == "dev-secret"
ExpiresInDays == 7
DEFAULT_ITEM_IMAGE ==
  "https://images.unsplash.com/photo-1504674900247-0877df9cc836?auto=format&fit=crop&w=800&q=80"

(***************************************************************************)
(* Values.  An email is a sequence of characters so that toLowerCase acts  *)
(* on it; <<>> and "" are the missing / empty (falsy) values of a body.    *)
(***************************************************************************)
Null == [null |-> TRUE]

LowerChar(c) ==
  CASE c = "A" -> "a"
    [] c = "B" -> "b"
    [] c = "M" -> "m"
    [] c = "O" -> "o"
    [] c = "S" -> "s"
    [] c = "T" -> "t"
    [] c = "U" -> "u"
    [] OTHER -> c

toLowerCase(s) == [i \in DOMAIN s |-> LowerChar(s[i])]

\* ObjectId: user and item documents draw distinct ids; toString is the id.
UserOid(n) == "u" \o ToString(n)
ItemOid(n) == "i" \o ToString(n)

ObjectIdIsValid(id) ==
  id \in {UserOid(n) : n \in 1..(MaxUsers + 1)} \cup {ItemOid(n) : n \in 1..(MaxItems + 1)}

\* bcrypt.hash(password, 10) and bcrypt.compare(password, hash); the empty
\* hash <<>> (user.password || "") matches no password.
bcryptHash(password) == <<"$2b$10$", password>>

bcryptCompare(password, hash) == hash = bcryptHash(password)

Resp(status, body) == [status |-> status, body |-> body]

Message(text) == [message |-> text]

(***************************************************************************)
(* Token service.                                                          *)
(***************************************************************************)
sanitizeUser_LeaksHash(user) ==
  [id |-> user._id, name |-> user.name, email |-> user.email,
   role |-> IF user.role = "" THEN "user" ELSE user.role,
   password |-> user.password]

sanitizeUser(user) ==
  [id |-> user._id, name |-> user.name, email |-> user.email,
   role |-> IF user.role = "" THEN "user" ELSE user.role]

buildToken(user, t) ==
  [jwt |-> TRUE,
   sub |-> user._id,
   email |-> user.email,
   role |-> IF user.role = "" THEN "user" ELSE user.role,
   iat |-> t,
   exp |-> t + ExpiresInDays,
   sig |-> JWT_SECRET]

\* jwt.verify(token, secret) at time t: the decoded claims, or Null when the
\* token is malformed, signed with another key, or expired (t >= exp).
jwtVerify(token, t) ==
  IF ~token.jwt THEN Null
  ELSE IF token.sig /= JWT_SECRET THEN Null
  ELSE IF t >= token.exp THEN Null
  ELSE [sub |-> token.sub, email |-> token.email, role |-> token.role,
        iat |-> token.iat, exp |-> token.exp]

(***************************************************************************)
(* Persistence operations on the user collection.                          *)
(***************************************************************************)
\* findOne({ email }): some matching document, Null when there is none.
findOneByEmail(store, email) ==
  LET matches == {u \in store : u.email = email}
  IN IF matches = {} THEN {Null} ELSE matches

findOneAndUpdate_ResetsCreatedAt(store, email, set, t, newId) ==
  LET matches == {u \in store : u.email = email}
      fresh(id) == [_id |-> id, name |-> set.name, email |-> set.email,
                    password |-> <<>>, role |-> set.role,
                    provider |-> set.provider, createdAt |-> t,
                    updatedAt |-> set.updatedAt]
  IN IF matches = {}
     THEN {[store |-> store \cup {fresh(newId)}, value |-> fresh(newId), upserted |-> TRUE]}
     ELSE {[store |-> (store \ {u}) \cup {[fresh(u._id) EXCEPT !.password = u.password]},
            value |-> [fresh(u._id) EXCEPT !.password = u.password],
            upserted |-> FALSE] : u \in matches}

findOneAndUpdate_AlwaysInserts(store, email, set, t, newId) ==
  LET doc == [_id |-> newId, name |-> set.name, email |-> set.email,
              password |-> <<>>, role |-> set.role,
              provider |-> set.provider, createdAt |-> t,
              updatedAt |-> set.updatedAt]
  IN {[store |-> store \cup {doc}, value |-> doc, upserted |-> TRUE]}

\* findOneAndUpdate({email}, {$set, $setOnInsert}, {upsert, returnDocument:
\* "after"}) as one atomic operation: the possible (store', document) pairs.
findOneAndUpdate(store, email, set, t, newId) ==
  LET matches == {u \in store : u.email = email}
  IN IF matches = {}
     THEN LET doc == [_id |-> newId, name |-> set.name, email |-> set.email,
                      password |-> <<>>, role |-> set.role,
                      provider |-> set.provider, createdAt |-> t,
                      updatedAt |-> set.updatedAt]
          IN {[store |-> store \cup {doc}, value |-> doc, upserted |-> TRUE]}
     ELSE {LET doc == [u EXCEPT !.name = set.name, !.email = set.email,
                                !.provider = set.provider, !.role = set.role,
                                !.updatedAt = set.updatedAt]
           IN [store |-> (store \ {u}) \cup {doc}, value |-> doc, upserted |-> FALSE]
           : u \in matches}

(***************************************************************************)
(* Request slots.                                                          *)
(***************************************************************************)
Idle == [op |-> "none", pc |-> "idle"]

Free(s) == reqs[s].pc \in {"idle", "done"}

Done(op, in, resp) == [op |-> op, pc |-> "done", in |-> in, resp |-> resp]

At(s, op, pc) == reqs[s].op = op /\ reqs[s].pc = pc

Init ==
  /\ users = {}
  /\ items = {}
  /\ now = 0
  /\ userSeq = 1
  /\ itemSeq = 1
  /\ tokens = {}
  /\ reqs = [s \in Slots |-> Idle]

\* Time passes by d days.
Tick(d) ==
  /\ now + d <= MaxTime
  /\ now' = now + d
  /\ UNCHANGED <<users, items, userSeq, itemSeq, tokens, reqs>>

(***************************************************************************)
(* POST /auth/register                                                     *)
(***************************************************************************)
registerLookup_NoLower(store, body) == findOneByEmail(store, body.email)

\* The duplicate check of the handler: findOne({ email: email.toLowerCase() }).
registerLookup(store, body) == findOneByEmail(store, toLowerCase(body.email))

\* Validation and the lookup of an existing user, up to the await of the hash.
RegisterFind(s, body) ==
  /\ Free(s)
  /\ UNCHANGED <<users, items, now, userSeq, itemSeq, tokens>>
  /\ IF body.name = "" \/ body.email = <<>> \/ body.password = ""
     THEN reqs' = [reqs EXCEPT ![s] =
            Done("register", body, Resp(400, Message("Name, email, and password are required")))]
     ELSE \E existingUser \in registerLookup(users, body) :
            IF existingUser /= Null
            THEN reqs' = [reqs EXCEPT ![s] =
                   Done("register", body, Resp(409, Message("Email is already registered")))]
            ELSE reqs' = [reqs EXCEPT ![s] =
                   [op |-> "register", pc |-> "insert", in |-> body]]

registerDocument(body, t) ==
  [name |-> body.name,
   email |-> toLowerCase(body.email),
   password |-> bcryptHash(body.password),
   role |-> "user",
   provider |-> "credentials",
   createdAt |-> t,
   updatedAt |-> t]

\* insertOne(newUser), then the token and the response.
RegisterInsert(s) ==
  /\ At(s, "register", "insert")
  /\ userSeq <= MaxUsers
  /\ LET body == reqs[s].in
         newUser == registerDocument(body, now)
         insertedUser == [_id |-> UserOid(userSeq)] @@ newUser
         token == buildToken(insertedUser, now)
     IN /\ users' = users \cup {insertedUser}
        /\ userSeq' = userSeq + 1
        /\ reqs' = [reqs EXCEPT ![s] =
             Done("register", body,
                  Resp(201, [user |-> sanitizeUser(insertedUser), token |-> token]))]
  /\ UNCHANGED <<items, now, itemSeq, tokens>>

(***************************************************************************)
(* POST /auth/login                                                        *)
(***************************************************************************)
loginRespond_Leaks(user, password, t) ==
  IF user = Null
  THEN Resp(404, Message("User not found"))
  ELSE IF ~bcryptCompare(password, user.password)
  THEN Resp(401, Message("Invalid email or password"))
  ELSE Resp(200, [user |-> sanitizeUser(user), token |-> buildToken(user, t)])

\* The response once findOne has returned user (Null: no such user).
loginRespond(user, password, t) ==
  IF user = Null
  THEN Resp(401, Message("Invalid email or password"))
  ELSE IF ~bcryptCompare(password, user.password)
  THEN Resp(401, Message("Invalid email or password"))
  ELSE Resp(200, [user |-> sanitizeUser(user), token |-> buildToken(user, t)])

\* The responses the handler can give for body against store at time t.
loginHandler(store, body, t) ==
  IF body.email = <<>> \/ body.password = ""
  THEN {Resp(400, Message("Email and password are required"))}
  ELSE {loginRespond(user, body.password, t) :
          user \in findOneByEmail(store, toLowerCase(body.email))}

Login(s, body) ==
  /\ Free(s)
  /\ \E resp \in loginHandler(users, body, now) :
       reqs' = [reqs EXCEPT ![s] = Done("login", body, resp)]
  /\ UNCHANGED <<users, items, now, userSeq, itemSeq, tokens>>

(***************************************************************************)
(* POST /auth/oauth                                                        *)
(***************************************************************************)
oauthCheck_ValidatesFirst(key, body) ==
  IF body.email = <<>> \/ body.name = ""
  THEN Resp(400, Message("Email and name are required"))
  ELSE IF key /= INTERNAL_API_KEY
  THEN Resp(401, Message("Unauthorized request"))
  ELSE Null

\* The checks before the upsert: the rejection, or Null when the request passes.
oauthCheck(key, body) ==
  IF key /= INTERNAL_API_KEY
  THEN Resp(401, Message("Unauthorized request"))
  ELSE IF body.email = <<>> \/ body.name = ""
  THEN Resp(400, Message("Email and name are required"))
  ELSE Null

\* The $set document of the upsert; t is the handler's `now`.
oauthSet(body, t) ==
  [name |-> body.name,
   email |-> toLowerCase(body.email),
   provider |-> IF body.provider = "" THEN "google" ELSE body.provider,
   role |-> "user",
   updatedAt |-> t]

\* The handler up to the await of findOneAndUpdate; `now` is read here.
OAuthArrive(s, key, body) ==
  /\ Free(s)
  /\ UNCHANGED <<users, items, now, userSeq, itemSeq, tokens>>
  /\ LET in == [key |-> key, body |-> body]
     IN IF oauthCheck(key, body) /= Null
        THEN reqs' = [reqs EXCEPT ![s] = Done("oauth", in, oauthCheck(key, body))]
        ELSE reqs' = [reqs EXCEPT ![s] =
               [op |-> "oauth", pc |-> "upsert", in |-> in, now |-> now]]

\* The response for the document the upsert returned, signed at time t.
oauthRespond(user, t) ==
  IF user = Null
  THEN Resp(500, Message("Failed to retrieve user after sync"))
  ELSE Resp(200, [user |-> sanitizeUser(user), token |-> buildToken(user, t)])

\* The upsert of the handler and what follows it, for a body whose `now`
\* was t, answered at time tSign: the possible outcomes.
oauthUpsert(store, seq, body, t, tSign) ==
  {[store |-> result.store,
    seq |-> IF result.upserted THEN seq + 1 ELSE seq,
    upserted |-> result.upserted,
    resp |-> oauthRespond(result.value, tSign)] :
     result \in findOneAndUpdate(store, toLowerCase(body.email), oauthSet(body, t),
                                 t, UserOid(seq))}

\* The upsert executes, then the token and the response.
OAuthUpsert(s) ==
  /\ At(s, "oauth", "upsert")
  /\ \E out \in oauthUpsert(users, userSeq, reqs[s].in.body, reqs[s].now, now) :
       /\ out.upserted => userSeq <= MaxUsers
       /\ users' = out.store
       /\ userSeq' = out.seq
       /\ reqs' = [reqs EXCEPT ![s] = Done("oauth", reqs[s].in, out.resp)]
  /\ UNCHANGED <<items, now, itemSeq, tokens>>

(***************************************************************************)
(* Specifications of the authentication handlers, each over its own small  *)
(* set of request inputs.                                                  *)
(***************************************************************************)
RegBody(name, email, password) == [name |-> name, email |-> email, password |-> password]
LoginBody(email, password) == [email |-> email, password |-> password]
OAuthBody(email, name, provider) == [email |-> email, name |-> name, provider |-> provider]

\* The request bodies of the two accounts the specifications use.
AliceBody == RegBody("n1", <<"a">>, "p1")
BobBody == RegBody("n2", <<"b">>, "p2")
AliceLogin == LoginBody(<<"A">>, "p1")
AliceSync == OAuthBody(<<"a">>, "n1", "")

\* Registration, with an OAuth sync of the same email racing it.
RegisterInputs ==
  {AliceBody, RegBody("n2", <<"A">>, "p2"),
   RegBody("", <<"a">>, "p1"), RegBody("n1", <<"b">>, "p1")}

NextRegister ==
  \/ \E s \in Slots, body \in RegisterInputs : RegisterFind(s, body)
  \/ \E s \in Slots : RegisterInsert(s)
  \/ \E s \in Slots : OAuthArrive(s, INTERNAL_API_KEY, AliceSync)
  \/ \E s \in Slots : OAuthUpsert(s)

SpecRegister == Init /\ [][NextRegister]_vars

\* Login against accounts made by registration.
LoginAccounts == {AliceBody, RegBody("n2", <<"B">>, "p2")}

LoginInputs ==
  {LoginBody(e, p) : e \in {<<>>, <<"a">>, <<"A">>, <<"b">>}, p \in {"", "p1", "p2"}}

NextLogin ==
  \/ \E s \in Slots, body \in LoginAccounts : RegisterFind(s, body)
  \/ \E s \in Slots : RegisterInsert(s)
  \/ \E s \in Slots, body \in LoginInputs : Login(s, body)

SpecLogin == Init /\ [][NextLogin]_vars

\* OAuth sync with good and bad keys and bodies, as time passes, and a
\* registration of the same email.
OAuthIn(key, body) == [key |-> key, body |-> body]

OAuthInputs ==
  {OAuthIn(INTERNAL_API_KEY, OAuthBody(<<"a">>, "n1", "")),
   OAuthIn(INTERNAL_API_KEY, OAuthBody(<<"A">>, "n2", "github")),
   OAuthIn(INTERNAL_API_KEY, OAuthBody(<<>>, "n1", "")),
   OAuthIn(INTERNAL_API_KEY, OAuthBody(<<"a">>, "", "")),
   OAuthIn("wrong-key", OAuthBody(<<"a">>, "n1", "")),
   OAuthIn("wrong-key", OAuthBody(<<>>, "", "")),
   OAuthIn("", OAuthBody(<<"a">>, "n1", ""))}

NextOAuth ==
  \/ Tick(4)
  \/ \E s \in Slots, in \in OAuthInputs : OAuthArrive(s, in.key, in.body)
  \/ \E s \in Slots : OAuthUpsert(s)
  \/ \E s \in Slots : RegisterFind(s, AliceBody)
  \/ \E s \in Slots : RegisterInsert(s)

SpecOAuth == Init /\ [][NextOAuth]_vars

\* Accounts made by registration and by OAuth sync of the same email, in any
\* interleaving, and logins against them.
CapsBody == RegBody("n2", <<"A">>, "p2")
CapsSync == OAuthBody(<<"A">>, "n2", "github")
AccountRegisters == {AliceBody, CapsBody}
AccountSyncs == {AliceSync, CapsSync}
AccountLogins == {AliceLogin, LoginBody(<<"a">>, "p2"), LoginBody(<<"a">>, "p3")}

NextAccounts ==
  \/ Tick(4)
  \/ \E s \in Slots, body \in AccountRegisters : RegisterFind(s, body)
  \/ \E s \in Slots : RegisterInsert(s)
  \/ \E s \in Slots, body \in AccountSyncs : OAuthArrive(s, INTERNAL_API_KEY, body)
  \/ \E s \in Slots : OAuthUpsert(s)
  \/ \E s \in Slots, body \in AccountLogins : Login(s, body)

SpecAccounts == Init /\ [][NextAccounts]_vars

(***************************************************************************)
(* JSON values of an item body: tagged, since a field may carry any type.  *)
(***************************************************************************)
Undefined == <<"undefined">>
JsNull == <<"null">>
NaN == <<"NaN">>
Str(s) == <<"string", s>>
Num(n) == <<"number", n>>

\* !value
Falsy(v) == v \in {Undefined, JsNull, NaN, Str(""), Num(0)}

\* The strings of the model that parse as numbers.
Numerals == [s \in {"0", "5", "12", "-1"} |->
               CASE s = "0" -> 0 [] s = "5" -> 5 [] s = "12" -> 12 [] s = "-1" -> 0 - 1]

\* Number(value)
Number(v) ==
  CASE v[1] = "number" -> v
    [] v[1] = "string" -> IF v[2] = "" THEN Num(0)
                          ELSE IF v[2] \in DOMAIN Numerals THEN Num(Numerals[v[2]])
                          ELSE NaN
    [] v[1] = "null" -> Num(0)
    [] OTHER -> NaN

validatePriceValue_AllowsNegative(value) ==
  LET parsed == Number(value)
  IN IF parsed = NaN
     THEN [valid |-> FALSE, parsed |-> JsNull]
     ELSE [valid |-> TRUE, parsed |-> parsed]

validatePriceValue(value) ==
  LET parsed == Number(value)
  IN IF parsed = NaN \/ parsed[2] < 0
     THEN [valid |-> FALSE, parsed |-> JsNull]
     ELSE [valid |-> TRUE, parsed |-> parsed]

\* now.toISOString()
toISOString(t) == Str("T" \o ToString(t))

(***************************************************************************)
(* The bearer guard.                                                       *)
(***************************************************************************)
\* The Authorization header: <<>> when absent or empty, <<token>> for
\* "Bearer " followed by the token.
NoHeader == <<>>
Bearer(token) == <<token>>

authGuard_NoVerify(header, t) ==
  IF Len(header) = 0
  THEN [user |-> Null, resp |-> Resp(401, Message("Authorization token missing"))]
  ELSE IF ~header[1].jwt
  THEN [user |-> Null, resp |-> Resp(401, Message("Invalid or expired token"))]
  ELSE [user |-> [sub |-> header[1].sub, email |-> header[1].email,
                  role |-> header[1].role, iat |-> header[1].iat, exp |-> header[1].exp],
        resp |-> Null]

\* authGuard at time t: the decoded claims (req.user) and no response, or
\* the 401 response.
authGuard(header, t) ==
  IF Len(header) = 0
  THEN [user |-> Null, resp |-> Resp(401, Message("Authorization token missing"))]
  ELSE IF jwtVerify(header[1], t) = Null
  THEN [user |-> Null, resp |-> Resp(401, Message("Invalid or expired token"))]
  ELSE [user |-> jwtVerify(header[1], t), resp |-> Null]

(***************************************************************************)
(* The route table of /items and /products, in registration order.         *)
(***************************************************************************)
RouteEntry(method, path, guard, handler) ==
  [method |-> method, path |-> path, guard |-> guard, handler |-> handler]

Routes ==
  <<RouteEntry("GET", <<"items">>, FALSE, "listItems"),
    RouteEntry("GET", <<"items", ":id">>, FALSE, "getItem"),
    RouteEntry("GET", <<"items", "mine">>, TRUE, "listMine"),
    RouteEntry("GET", <<"products">>, TRUE, "listProducts"),
    RouteEntry("PUT", <<"products", ":id">>, TRUE, "update"),
    RouteEntry("POST", <<"items">>, TRUE, "create"),
    RouteEntry("POST", <<"products">>, TRUE, "create"),
    RouteEntry("DELETE", <<"items", ":id">>, TRUE, "delete"),
    RouteEntry("DELETE", <<"products", ":id">>, TRUE, "delete")>>

Matches(route, method, path) ==
  /\ route.method = method
  /\ Len(route.path) = Len(path)
  /\ \A i \in 1..Len(path) : route.path[i] = ":id" \/ route.path[i] = path[i]

\* The handler express dispatches to: the first registered route that
\* matches; none: the 404 fallback.
Route(method, path) ==
  LET hits == {i \in 1..Len(Routes) : Matches(Routes[i], method, path)}
  IN IF hits = {} THEN "notFound"
     ELSE Routes[CHOOSE i \in hits : \A j \in hits : i <= j].handler

Request(method, path, header, body) ==
  [method |-> method, path |-> path, header |-> header, body |-> body]

(***************************************************************************)
(* Item documents and their views.                                         *)
(***************************************************************************)
BodyFields ==
  {"name", "summary", "description", "image", "category", "price", "priority",
   "availableDate"}

\* Fields a client may send that no handler reads from the body.
ForeignFields == {"ownerId", "userId", "ownerEmail", "createdAt"}

\* A request body: the fields given, every other field undefined.
Body(given) ==
  [f \in BodyFields \cup ForeignFields |-> IF f \in DOMAIN given THEN given[f] ELSE Undefined]

mapPublicItem(item) ==
  [id |-> item._id, name |-> item.name, summary |-> item.summary,
   description |-> item.description, image |-> item.image,
   category |-> item.category, price |-> item.price, priority |-> item.priority,
   availableDate |-> item.availableDate, ownerId |-> item.ownerId,
   ownerEmail |-> item.ownerEmail, createdAt |-> item.createdAt]

mapUserItem(item) ==
  [userId |-> IF item.userId = "" THEN item.ownerId ELSE item.userId]
    @@ mapPublicItem(item)

ensureOwnership_Anyone(item, userId) == item /= Null

ensureOwnership(item, userId) ==
  item /= Null /\ (item.userId = userId \/ item.ownerId = userId)

\* find(buildOwnershipQuery(userId))
ownedBy(store, userId) == {i \in store : i.userId = userId \/ i.ownerId = userId}

\* findOne({ _id: new ObjectId(id) })
findOneById(store, id) ==
  IF \E i \in store : i._id = id THEN CHOOSE i \in store : i._id = id ELSE Null

\* sort({ createdAt: -1 }).toArray(): the orders the sort may return.
sortNewestFirst(docs) ==
  {seq \in [1..Cardinality(docs) -> docs] :
     /\ \A i, j \in DOMAIN seq : i /= j => seq[i] /= seq[j]
     /\ \A i, j \in DOMAIN seq : i < j => seq[i].createdAt >= seq[j].createdAt}

\* The object handleCreateProduct hands to buildProductDocument: the fields
\* it destructured from the body, with the parsed price.
productFields(body, parsed) ==
  [f \in BodyFields |-> IF f = "price" THEN parsed ELSE body[f]]

buildProductDocument_NoDefaults(body, userId, userEmail, t) ==
  [name |-> body.name,
   summary |-> body.summary,
   description |-> body.description,
   image |-> body.image,
   category |-> body.category,
   price |-> body.price,
   priority |-> body.priority,
   availableDate |-> IF Falsy(body.availableDate) THEN toISOString(t) ELSE body.availableDate,
   ownerId |-> userId,
   ownerEmail |-> userEmail,
   userId |-> userId,
   createdAt |-> t,
   updatedAt |-> t]

buildProductDocument(body, userId, userEmail, t) ==
  [name |-> body.name,
   summary |-> body.summary,
   description |-> body.description,
   image |-> IF Falsy(body.image) THEN Str(DEFAULT_ITEM_IMAGE) ELSE body.image,
   category |-> body.category,
   price |-> body.price,
   priority |-> IF Falsy(body.priority) THEN Str("medium") ELSE body.priority,
   availableDate |-> IF Falsy(body.availableDate) THEN toISOString(t) ELSE body.availableDate,
   ownerId |-> userId,
   ownerEmail |-> userEmail,
   userId |-> userId,
   createdAt |-> t,
   updatedAt |-> t]

(***************************************************************************)
(* Protected requests: the guard runs when the request arrives.            *)
(***************************************************************************)
Pending(op, pc, rq, user, loc) ==
  [op |-> op, pc |-> pc, in |-> rq, user |-> user, loc |-> loc]

\* GET /items/:id (public); it is also the first route GET /items/mine matches.
GetItem(s, rq) ==
  /\ Free(s)
  /\ Route(rq.method, rq.path) = "getItem"
  /\ LET id == rq.path[2]
         item == findOneById(items, id)
     IN reqs' = [reqs EXCEPT ![s] = Done("getItem", rq,
          IF ~ObjectIdIsValid(id) THEN Resp(400, Message("Invalid item id"))
          ELSE IF item = Null THEN Resp(404, Message("Item not found"))
          ELSE Resp(200, mapPublicItem(item)))]
  /\ UNCHANGED <<users, items, now, userSeq, itemSeq, tokens>>

\* GET /items/mine and GET /products: the caller's items, newest first.
ListMine(s, rq) ==
  /\ Free(s)
  /\ Route(rq.method, rq.path) \in {"listMine", "listProducts"}
  /\ LET guard == authGuard(rq.header, now)
     IN IF guard.resp /= Null
        THEN reqs' = [reqs EXCEPT ![s] = Done("list", rq, guard.resp)]
        ELSE \E found \in sortNewestFirst(ownedBy(items, guard.user.sub)) :
               reqs' = [reqs EXCEPT ![s] = Done("list", rq,
                 Resp(200, [i \in DOMAIN found |-> mapUserItem(found[i])]))]
  /\ UNCHANGED <<users, items, now, userSeq, itemSeq, tokens>>

\* The checks of handleCreateProduct: the 400 response, or Null.
createCheck(body) ==
  IF \/ Falsy(body.name) \/ Falsy(body.summary) \/ Falsy(body.description)
     \/ Falsy(body.category) \/ body.price = Undefined
  THEN Resp(400, Message("Missing required fields"))
  ELSE IF ~validatePriceValue(body.price).valid
  THEN Resp(400, Message("Price must be a valid positive number"))
  ELSE Null

\* POST /items and POST /products up to the insertOne.
CreateInsert(s, rq) ==
  /\ Free(s)
  /\ Route(rq.method, rq.path) = "create"
  /\ LET guard == authGuard(rq.header, now)
     IN IF guard.resp /= Null
        THEN /\ reqs' = [reqs EXCEPT ![s] = Done("create", rq, guard.resp)]
             /\ UNCHANGED <<items, itemSeq>>
        ELSE IF createCheck(rq.body) /= Null
        THEN /\ reqs' = [reqs EXCEPT ![s] = Done("create", rq, createCheck(rq.body))]
             /\ UNCHANGED <<items, itemSeq>>
        ELSE /\ itemSeq <= MaxItems
             /\ LET payload == buildProductDocument(
                                 productFields(rq.body, validatePriceValue(rq.body.price).parsed),
                                 guard.user.sub, guard.user.email, now)
                IN items' = items \cup {[_id |-> ItemOid(itemSeq)] @@ payload}
             /\ itemSeq' = itemSeq + 1
             /\ reqs' = [reqs EXCEPT ![s] =
                  Pending("create", "findOne", rq, guard.user, [insertedId |-> ItemOid(itemSeq)])]
  /\ UNCHANGED <<users, now, userSeq, tokens>>

\* The findOne of the inserted document, and the response.
CreateFind(s) ==
  /\ At(s, "create", "findOne")
  /\ LET created == findOneById(items, reqs[s].loc.insertedId)
     IN reqs' = [reqs EXCEPT ![s] = Done("create", reqs[s].in,
          IF created = Null
          THEN Resp(500, Message("Unable to create product"))
          ELSE Resp(201, mapUserItem(created)))]
  /\ UNCHANGED <<users, items, now, userSeq, itemSeq, tokens>>

\* The checks of handleDeleteProduct on the document findOne returned.
deleteCheck(id, item, user) ==
  IF ~ObjectIdIsValid(id) THEN Resp(400, Message("Invalid product id"))
  ELSE IF item = Null THEN Resp(404, Message("Product not found"))
  ELSE IF ~ensureOwnership(item, user.sub)
  THEN Resp(403, Message("You can only delete your own products"))
  ELSE Null

\* DELETE /items/:id and DELETE /products/:id up to the deleteOne.
DeleteFind(s, rq) ==
  /\ Free(s)
  /\ Route(rq.method, rq.path) = "delete"
  /\ LET guard == authGuard(rq.header, now)
         id == rq.path[2]
         item == findOneById(items, id)
     IN IF guard.resp /= Null
        THEN reqs' = [reqs EXCEPT ![s] = Done("delete", rq, guard.resp)]
        ELSE IF deleteCheck(id, item, guard.user) /= Null
        THEN reqs' = [reqs EXCEPT ![s] = Done("delete", rq, deleteCheck(id, item, guard.user))]
        ELSE reqs' = [reqs EXCEPT ![s] =
               Pending("delete", "deleteOne", rq, guard.user, [itemId |-> item._id])]
  /\ UNCHANGED <<users, items, now, userSeq, itemSeq, tokens>>

DeleteApply_KeepsItem(s) ==
  /\ At(s, "delete", "deleteOne")
  /\ items' = items
  /\ reqs' = [reqs EXCEPT ![s] =
       Done("delete", reqs[s].in, Resp(200, Message("Product deleted")))]
  /\ UNCHANGED <<users, now, userSeq, itemSeq, tokens>>

\* deleteOne({ _id: item._id }), and the response.
DeleteApply(s) ==
  /\ At(s, "delete", "deleteOne")
  /\ items' = {i \in items : i._id /= reqs[s].loc.itemId}
  /\ reqs' = [reqs EXCEPT ![s] =
       Done("delete", reqs[s].in, Resp(200, Message("Product deleted")))]
  /\ UNCHANGED <<users, now, userSeq, itemSeq, tokens>>

UpdatableFields ==
  {"name", "summary", "description", "image", "category", "priority", "availableDate"}

buildUpdates_WithOwner(body) ==
  LET given == {f \in UpdatableFields \cup {"ownerId", "userId"} : body[f] /= Undefined}
      priced == IF body.price /= Undefined THEN {"price"} ELSE {}
  IN [f \in given \cup priced |->
        IF f = "price" THEN validatePriceValue(body.price).parsed
        ELSE IF f \in {"ownerId", "userId"} THEN body[f][2]
        ELSE body[f]]

\* The $set document handleUpdateProduct builds from the body (without
\* updatedAt), given that the price, if any, is valid.
buildUpdates(body) ==
  LET given == {f \in UpdatableFields : body[f] /= Undefined}
      priced == IF body.price /= Undefined THEN {"price"} ELSE {}
  IN [f \in given \cup priced |->
        IF f = "price" THEN validatePriceValue(body.price).parsed ELSE body[f]]

updateCheck_NoPriceCheck(id, item, user, body) ==
  IF ~ObjectIdIsValid(id) THEN Resp(400, Message("Invalid product id"))
  ELSE IF item = Null THEN Resp(404, Message("Product not found"))
  ELSE IF ~ensureOwnership(item, user.sub)
  THEN Resp(403, Message("You can only edit your own products"))
  ELSE IF DOMAIN buildUpdates(body) = {}
  THEN Resp(400, Message("No changes provided"))
  ELSE Null

updateCheck_ValidatesFirst(id, item, user, body) ==
  IF ~ObjectIdIsValid(id) THEN Resp(400, Message("Invalid product id"))
  ELSE IF item = Null THEN Resp(404, Message("Product not found"))
  ELSE IF body.price /= Undefined /\ ~validatePriceValue(body.price).valid
  THEN Resp(400, Message("Price must be a valid positive number"))
  ELSE IF DOMAIN buildUpdates(body) = {}
  THEN Resp(400, Message("No changes provided"))
  ELSE IF ~ensureOwnership(item, user.sub)
  THEN Resp(403, Message("You can only edit your own products"))
  ELSE Null

\* The checks of handleUpdateProduct on the document findOne returned.
updateCheck(id, item, user, body) ==
  IF ~ObjectIdIsValid(id) THEN Resp(400, Message("Invalid product id"))
  ELSE IF item = Null THEN Resp(404, Message("Product not found"))
  ELSE IF ~ensureOwnership(item, user.sub)
  THEN Resp(403, Message("You can only edit your own products"))
  ELSE IF body.price /= Undefined /\ ~validatePriceValue(body.price).valid
  THEN Resp(400, Message("Price must be a valid positive number"))
  ELSE IF DOMAIN buildUpdates(body) = {}
  THEN Resp(400, Message("No changes provided"))
  ELSE Null

UpdateFind_WritesWholeDocument(s, rq) ==
  /\ Free(s)
  /\ Route(rq.method, rq.path) = "update"
  /\ LET guard == authGuard(rq.header, now)
         id == rq.path[2]
         item == findOneById(items, id)
     IN IF guard.resp /= Null
        THEN reqs' = [reqs EXCEPT ![s] = Done("update", rq, guard.resp)]
        ELSE IF updateCheck(id, item, guard.user, rq.body) /= Null
        THEN reqs' = [reqs EXCEPT ![s] =
               Done("update", rq, updateCheck(id, item, guard.user, rq.body))]
        ELSE reqs' = [reqs EXCEPT ![s] =
               Pending("update", "updateOne", rq, guard.user,
                       [itemId |-> item._id,
                        updates |-> [updatedAt |-> now] @@ buildUpdates(rq.body) @@ item])]
  /\ UNCHANGED <<users, items, now, userSeq, itemSeq, tokens>>

\* PUT /products/:id up to the updateOne.
UpdateFind(s, rq) ==
  /\ Free(s)
  /\ Route(rq.method, rq.path) = "update"
  /\ LET guard == authGuard(rq.header, now)
         id == rq.path[2]
         item == findOneById(items, id)
     IN IF guard.resp /= Null
        THEN reqs' = [reqs EXCEPT ![s] = Done("update", rq, guard.resp)]
        ELSE IF updateCheck(id, item, guard.user, rq.body) /= Null
        THEN reqs' = [reqs EXCEPT ![s] =
               Done("update", rq, updateCheck(id, item, guard.user, rq.body))]
        ELSE reqs' = [reqs EXCEPT ![s] =
               Pending("update", "updateOne", rq, guard.user,
                       [itemId |-> item._id,
                        updates |-> [updatedAt |-> now] @@ buildUpdates(rq.body)])]
  /\ UNCHANGED <<users, items, now, userSeq, itemSeq, tokens>>

applySet_Replace(item, updates) ==
  [f \in DOMAIN item |->
     IF f \in DOMAIN updates THEN updates[f]
     ELSE IF f = "_id" THEN item[f] ELSE Undefined]

\* updateOne({ _id }, { $set: updates }) on a document.
applySet(item, updates) ==
  [f \in DOMAIN item |-> IF f \in DOMAIN updates THEN updates[f] ELSE item[f]]

UpdateApply_Upserts(s) ==
  /\ At(s, "update", "updateOne")
  /\ LET id == reqs[s].loc.itemId
         updates == reqs[s].loc.updates
         blank == [_id |-> id, name |-> Undefined, summary |-> Undefined,
                   description |-> Undefined, image |-> Undefined, category |-> Undefined,
                   price |-> Undefined, priority |-> Undefined, availableDate |-> Undefined,
                   ownerId |-> "", ownerEmail |-> <<>>, userId |-> "",
                   createdAt |-> 0, updatedAt |-> 0]
     IN items' = IF \E i \in items : i._id = id
                 THEN {IF i._id = id THEN applySet(i, updates) ELSE i : i \in items}
                 ELSE items \cup {applySet(blank, updates)}
  /\ reqs' = [reqs EXCEPT ![s].pc = "findOne"]
  /\ UNCHANGED <<users, now, userSeq, itemSeq, tokens>>

\* updateOne({ _id: item._id }, { $set: updates }): nothing when the document
\* is gone.
UpdateApply(s) ==
  /\ At(s, "update", "updateOne")
  /\ items' = {IF i._id = reqs[s].loc.itemId THEN applySet(i, reqs[s].loc.updates) ELSE i :
                 i \in items}
  /\ reqs' = [reqs EXCEPT ![s].pc = "findOne"]
  /\ UNCHANGED <<users, now, userSeq, itemSeq, tokens>>

\* The findOne of the updated document, and the response.
UpdateRefetch(s) ==
  /\ At(s, "update", "findOne")
  /\ LET updated == findOneById(items, reqs[s].loc.itemId)
     IN reqs' = [reqs EXCEPT ![s] = Done("update", reqs[s].in,
          IF updated = Null
          THEN Resp(500, Message("Unable to update product"))
          ELSE Resp(200, mapUserItem(updated)))]
  /\ UNCHANGED <<users, items, now, userSeq, itemSeq, tokens>>

\* A client keeps the token of a successful response of handler op.
KeepToken(s, op) ==
  /\ At(s, op, "done")
  /\ reqs[s].resp.status \in {200, 201}
  /\ reqs[s].resp.body.token \notin tokens
  /\ Cardinality(tokens) < MaxTokens
  /\ tokens' = tokens \cup {reqs[s].resp.body.token}
  /\ UNCHANGED <<users, items, now, userSeq, itemSeq, reqs>>

(***************************************************************************)
(* Requests to /items and /products.                                       *)
(***************************************************************************)
\* Tokens no client was given: not a JWT at all, and a JWT with the claims
\* of the first user signed with another key.
MalformedToken ==
  [jwt |-> FALSE, sub |-> "", email |-> <<>>, role |-> "", iat |-> 0, exp |-> 0, sig |-> ""]

ForgedToken ==
  [jwt |-> TRUE, sub |-> UserOid(1), email |-> <<"a">>, role |-> "user", iat |-> 0,
   exp |-> MaxTime + ExpiresInDays, sig |-> "attacker-secret"]

NoBody == Body(<<>>)

SoupBody ==
  Body([name |-> Str("Soup"), summary |-> Str("s"), description |-> Str("d"),
        category |-> Str("Starter"), price |-> Num(5)])

PriceBody == Body([price |-> Num(12)])

\* The bearer-protected endpoints, each with every kind of Authorization
\* header: none, malformed, forged, and the tokens logins returned, while
\* time passes beyond their expiry.
TokenHeaders == {NoHeader, Bearer(MalformedToken), Bearer(ForgedToken)} \cup {Bearer(t) : t \in tokens}

TokenRequests ==
  {Request("GET", <<"items", "mine">>, h, NoBody) : h \in TokenHeaders}
    \cup {Request("GET", <<"products">>, h, NoBody) : h \in TokenHeaders}
    \cup {Request("POST", <<"items">>, h, SoupBody) : h \in TokenHeaders}
    \cup {Request("POST", <<"products">>, h, SoupBody) : h \in TokenHeaders}
    \cup {Request("PUT", <<"products", ItemOid(1)>>, h, PriceBody) : h \in TokenHeaders}
    \cup {Request("DELETE", <<"items", ItemOid(1)>>, h, NoBody) : h \in TokenHeaders}
    \cup {Request("DELETE", <<"products", ItemOid(1)>>, h, NoBody) : h \in TokenHeaders}

NextToken ==
  \/ Tick(4)
  \/ RegisterFind("r2", AliceBody)
  \/ RegisterInsert("r2")
  \/ Login("r2", AliceLogin)
  \/ KeepToken("r2", "login")
  \/ \E rq \in TokenRequests : GetItem("r1", rq)
  \/ \E rq \in TokenRequests : ListMine("r1", rq)
  \/ \E rq \in TokenRequests : CreateInsert("r1", rq)
  \/ \E rq \in TokenRequests : UpdateFind("r1", rq)
  \/ \E rq \in TokenRequests : DeleteFind("r1", rq)
  \/ CreateFind("r1")
  \/ UpdateApply("r1")
  \/ UpdateRefetch("r1")
  \/ DeleteApply("r1")

SpecToken == Init /\ [][NextToken]_vars

(***************************************************************************)
(* The product handlers under two signed-in users.  The initial state is   *)
(* the one SpecSeed reaches (Seeded): Alice and Bob have registered at     *)
(* time 0 and their clients keep the tokens of the two responses.          *)
(***************************************************************************)
Alice == [_id |-> UserOid(1)] @@ registerDocument(AliceBody, 0)
Bob == [_id |-> UserOid(2)] @@ registerDocument(BobBody, 0)

Registered(body, user) ==
  Done("register", body, Resp(201, [user |-> sanitizeUser(user), token |-> buildToken(user, 0)]))

Seeded ==
  /\ users = {Alice, Bob}
  /\ items = {}
  /\ now = 0
  /\ userSeq = 3
  /\ itemSeq = 1
  /\ tokens = {buildToken(Alice, 0), buildToken(Bob, 0)}
  /\ reqs = [s \in Slots |-> IF s = "r1" THEN Registered(AliceBody, Alice)
                             ELSE Registered(BobBody, Bob)]

SeedBodies == {AliceBody, BobBody}

NextSeed ==
  \/ \E body \in SeedBodies : RegisterFind("r1", body)
  \/ \E body \in SeedBodies : RegisterFind("r2", body)
  \/ \E s \in Slots : RegisterInsert(s)
  \/ \E s \in Slots : KeepToken(s, "register")

SpecSeed == Init /\ [][NextSeed]_vars

InitItems == Seeded

ItemIds == {ItemOid(n) : n \in 1..MaxItems}

\* Creates, updates and deletes of every item with the token tok.
MutationRequests(tok) ==
  {Request("POST", <<"products">>, Bearer(tok), SoupBody)}
    \cup {Request("PUT", <<"products", id>>, Bearer(tok), b) :
            id \in ItemIds, b \in {PriceBody, NoBody}}
    \cup {Request("DELETE", <<"products", id>>, Bearer(tok), NoBody) : id \in ItemIds}

\* Slot r1 carries the requests of Alice's client, r2 those of Bob's.
AliceRequests == MutationRequests(buildToken(Alice, 0))
BobRequests == MutationRequests(buildToken(Bob, 0))

ClientRequests(s) == IF s = "r1" THEN AliceRequests ELSE BobRequests

NextItems ==
  \/ Tick(5)
  \/ \E s \in Slots : \E rq \in ClientRequests(s) : CreateInsert(s, rq)
  \/ \E s \in Slots : \E rq \in ClientRequests(s) : UpdateFind(s, rq)
  \/ \E s \in Slots : \E rq \in ClientRequests(s) : DeleteFind(s, rq)
  \/ \E s \in Slots : CreateFind(s)
  \/ \E s \in Slots : UpdateApply(s)
  \/ \E s \in Slots : UpdateRefetch(s)
  \/ \E s \in Slots : DeleteApply(s)

SpecItems == InitItems /\ [][NextItems]_vars

(***************************************************************************)
(* Properties of registration.                                             *)
(***************************************************************************)
SameEmailIgnoringCase(e1, e2) ==
  /\ Len(e1) = Len(e2)
  /\ \A i \in 1..Len(e1) : LowerChar(e1[i]) = LowerChar(e2[i])

EmailTaken(store, email) == \E u \in store : SameEmailIgnoringCase(u.email, email)

\* The step in which a new request of handler op enters slot s.
Arrives(s, op) == Free(s) /\ reqs'[s] /= reqs[s] /\ reqs'[s].op = op

\* C2: no two user documents carry the same email, in every reachable state
\* (overlapping registrations and registrations overlapping OAuth syncs
\* included).
C2_UniqueEmail == \A u, v \in users : u.email = v.email => u = v

\* C3 as stated: every register request whose email equals, ignoring case,
\* the email of a stored user is answered 409 and leaves the user store as
\* it was.
C3_DuplicateAlways409 ==
  [][\A s \in Slots :
       (Arrives(s, "register") /\ EmailTaken(users, reqs'[s].in.email))
         => /\ reqs'[s].pc = "done"
            /\ reqs'[s].resp.status = 409
            /\ users' = users]_vars

\* C3 (amended): a register request with non-empty name and password whose
\* email equals, ignoring case, the email of a stored user (made by register
\* or by OAuth sync) is answered 409 Email is already registered, and adds or
\* changes no user document.
C3_DuplicateEmailRejected ==
  [][\A s \in Slots :
       (/\ Arrives(s, "register")
        /\ reqs'[s].in.name /= ""
        /\ reqs'[s].in.password /= ""
        /\ EmailTaken(users, reqs'[s].in.email))
         => /\ reqs'[s].pc = "done"
            /\ reqs'[s].resp = Resp(409, Message("Email is already registered"))
            /\ users' = users
            /\ userSeq' = userSeq]_vars

\* A registration of "A" was answered 409 against the OAuth-made user "a".
C3_Witness ==
  \E s \in Slots :
    /\ At(s, "register", "done")
    /\ reqs[s].in.email = <<"A">>
    /\ reqs[s].resp.status = 409
    /\ \E u \in users : u.email = <<"a">> /\ u.password = <<>>

\* C4: a register request with non-empty name, email and password whose email
\* is not in the store is not rejected, and its insert adds exactly one user
\* with the lowercased email, role "user" and provider "credentials"; the
\* response is 201, its user has only id, name, email and role, and its token
\* verifies to claims whose subject is the new user's id.
C4_RegisterSucceeds ==
  [][\A s \in Slots :
       /\ (/\ Arrives(s, "register")
           /\ reqs'[s].in.name /= ""
           /\ reqs'[s].in.email /= <<>>
           /\ reqs'[s].in.password /= ""
           /\ ~EmailTaken(users, reqs'[s].in.email))
            => (reqs'[s].pc = "insert" /\ users' = users)
       /\ (At(s, "register", "insert") /\ reqs'[s] /= reqs[s])
            => LET body == reqs[s].in
                   resp == reqs'[s].resp
                   added == users' \ users
               IN /\ reqs'[s].pc = "done"
                  /\ resp.status = 201
                  /\ users \subseteq users'
                  /\ Cardinality(added) = 1
                  /\ \A u \in added :
                       /\ u.email = toLowerCase(body.email)
                       /\ u.name = body.name
                       /\ u.role = "user"
                       /\ u.provider = "credentials"
                       /\ DOMAIN resp.body.user = {"id", "name", "email", "role"}
                       /\ resp.body.user.id = u._id
                       /\ resp.body.user.email = u.email
                       /\ jwtVerify(resp.body.token, now') /= Null
                       /\ jwtVerify(resp.body.token, now').sub = u._id]_vars

\* A registration of the upper-case email "A" succeeded and stored "a".
C4_Witness ==
  \E s \in Slots :
    /\ At(s, "register", "done")
    /\ reqs[s].in.email = <<"A">>
    /\ reqs[s].resp.status = 201
    /\ \E u \in users : u._id = reqs[s].resp.body.user.id /\ u.email = <<"a">>

(***************************************************************************)
(* Properties of login.                                                    *)
(***************************************************************************)
InvalidCredentials == Resp(401, Message("Invalid email or password"))

\* C5: for the reachable store and the store without the users of email e, a
\* login with e and a password that is wrong for those users gets the same
\* response from both, 401 Invalid email or password when the password is not
\* empty; and every login actually answered 401 carries that message.
C5_NoExistenceLeak ==
  /\ \A body \in LoginInputs :
       LET without == {u \in users : u.email /= toLowerCase(body.email)}
       IN (/\ body.email /= <<>>
           /\ without /= users
           /\ \A u \in users \ without : ~bcryptCompare(body.password, u.password))
            => /\ loginHandler(users, body, now) = loginHandler(without, body, now)
               /\ body.password /= "" => loginHandler(users, body, now) = {InvalidCredentials}
  /\ \A s \in Slots :
       (At(s, "login", "done") /\ reqs[s].resp.status \notin {200, 400})
         => reqs[s].resp = InvalidCredentials

\* One login was refused for a wrong password of an existing user, another
\* for an email no user has, with the same response.
C5_Witness ==
  \E s1, s2 \in Slots :
    /\ At(s1, "login", "done")
    /\ At(s2, "login", "done")
    /\ reqs[s1].in.password /= ""
    /\ \E u \in users : u.email = toLowerCase(reqs[s1].in.email)
    /\ reqs[s2].in.email = <<"b">>
    /\ ~\E u \in users : u.email = <<"b">>
    /\ reqs[s1].resp = InvalidCredentials
    /\ reqs[s2].resp = reqs[s1].resp

(***************************************************************************)
(* Properties of OAuth sync.                                               *)
(***************************************************************************)
UsersOf(store, email) == {u \in store : u.email = email}

ProviderOf(body) == IF body.provider = "" THEN "google" ELSE body.provider

SyncBodies == {in.body : in \in {i \in OAuthInputs : oauthCheck(i.key, i.body) = Null}}

\* C8: from every reachable store without a user of the email, a first sync
\* at time now and a second one later, with the same email in any letter
\* case, return the same user id and leave exactly one user of that email,
\* with the second call's name and provider, updatedAt of the second call and
\* createdAt of the first.
C8_OAuthTwice ==
  \A b1, b2 \in SyncBodies :
    (/\ toLowerCase(b1.email) = toLowerCase(b2.email)
     /\ UsersOf(users, toLowerCase(b1.email)) = {})
      => \A first \in oauthUpsert(users, userSeq, b1, now, now) :
           \A second \in oauthUpsert(first.store, first.seq, b2, now + 1, now + 1) :
             LET recs == UsersOf(second.store, toLowerCase(b1.email))
             IN /\ first.resp.status = 200
                /\ second.resp.status = 200
                /\ second.resp.body.user.id = first.resp.body.user.id
                /\ Cardinality(recs) = 1
                /\ \A u \in recs :
                     /\ u._id = first.resp.body.user.id
                     /\ u.name = b2.name
                     /\ u.provider = ProviderOf(b2)
                     /\ u.updatedAt = now + 1
                     /\ u.createdAt = now

OAuthOk(s) == At(s, "oauth", "done") /\ reqs[s].resp.status = 200

\* Two syncs of "a" and "A" ran one after the other: one user, renamed by the
\* second, created at the first call's time and updated at the second's.
C8_Witness ==
  \E s1, s2 \in Slots :
    /\ OAuthOk(s1)
    /\ OAuthOk(s2)
    /\ reqs[s1].in.body.email = <<"a">>
    /\ reqs[s2].in.body.email = <<"A">>
    /\ reqs[s1].resp.body.user.id = reqs[s2].resp.body.user.id
    /\ reqs[s1].resp.body.user.name = "n1"
    /\ Cardinality(UsersOf(users, <<"a">>)) = 1
    /\ \E u \in users :
         /\ u._id = reqs[s2].resp.body.user.id
         /\ u.name = "n2"
         /\ u.provider = "github"
         /\ u.createdAt < u.updatedAt

\* C9: an oauth request whose key header is absent or differs from
\* INTERNAL_API_KEY is answered 401 Unauthorized request at once, whatever
\* its body, with no token, and the user store is unchanged.
C9_BadKeyUnauthorized ==
  [][\A s \in Slots :
       (Arrives(s, "oauth") /\ reqs'[s].in.key /= INTERNAL_API_KEY)
         => /\ reqs'[s].pc = "done"
            /\ reqs'[s].resp = Resp(401, Message("Unauthorized request"))
            /\ users' = users
            /\ userSeq' = userSeq
            /\ tokens' = tokens]_vars

\* A sync with a wrong key and an empty body was answered 401, not 400.
C9_Witness ==
  \E s \in Slots :
    /\ At(s, "oauth", "done")
    /\ reqs[s].in.key = "wrong-key"
    /\ reqs[s].in.body.email = <<>>
    /\ reqs[s].resp.status = 401

\* C10: when two authorized syncs of the same email have both been answered
\* and no registration made a user of that email, the store holds exactly
\* one user of that email and both tokens' subject is that user's id.
C10_ConcurrentOAuthOneUser ==
  \A s1, s2 \in Slots :
    (/\ s1 /= s2
     /\ OAuthOk(s1)
     /\ OAuthOk(s2)
     /\ toLowerCase(reqs[s1].in.body.email) = toLowerCase(reqs[s2].in.body.email)
     /\ \A u \in UsersOf(users, toLowerCase(reqs[s1].in.body.email)) : u.password = <<>>)
      => LET recs == UsersOf(users, toLowerCase(reqs[s1].in.body.email))
         IN /\ Cardinality(recs) = 1
            /\ \A u \in recs :
                 /\ reqs[s1].resp.body.token.sub = u._id
                 /\ reqs[s2].resp.body.token.sub = u._id
                 /\ jwtVerify(reqs[s1].resp.body.token, reqs[s1].resp.body.token.iat).sub = u._id

\* Two syncs overlapped: the one that arrived later ran its upsert first, so
\* the one user's updatedAt (the earlier arrival) precedes its createdAt.
C10_Witness ==
  \E s1, s2 \in Slots :
    /\ s1 /= s2
    /\ OAuthOk(s1)
    /\ OAuthOk(s2)
    /\ Cardinality(UsersOf(users, <<"a">>)) = 1
    /\ \E u \in users :
         /\ u.updatedAt < u.createdAt
         /\ reqs[s1].resp.body.token.sub = u._id
         /\ reqs[s2].resp.body.token.sub = u._id

(***************************************************************************)
(* Properties of the bearer guard and of ownership.                        *)
(***************************************************************************)
GuardedOps == {"list", "create", "update", "delete"}

ItemOps == GuardedOps \cup {"getItem"}

\* The step in which a request to /items or /products enters slot s.
ItemArrives(s) == Free(s) /\ reqs'[s] /= reqs[s] /\ reqs'[s].op \in ItemOps

Answered(r, status) == r.pc = "done" /\ r.resp.status = status

\* C1: an update or delete by an authenticated caller who is not the owner
\* of the stored item is answered 403 and leaves the items as they are; one
\* by the owner is not refused (it goes on to its write, or, for an update,
\* is answered 400 for its body); and every step that changes or removes a
\* stored item is the write of an update or delete whose caller owns it.
C1_OnlyOwnerMutates ==
  [][/\ \A s \in Slots :
          (/\ ItemArrives(s)
           /\ reqs'[s].op \in {"update", "delete"}
           /\ authGuard(reqs'[s].in.header, now).resp = Null)
            => LET caller == authGuard(reqs'[s].in.header, now).user.sub
               IN \A item \in {i \in items : i._id = reqs'[s].in.path[2]} :
                    /\ item.ownerId /= caller
                         => (Answered(reqs'[s], 403) /\ items' = items)
                    /\ item.ownerId = caller
                         => \/ reqs'[s].pc \in {"updateOne", "deleteOne"}
                            \/ reqs'[s].op = "update" /\ Answered(reqs'[s], 400)
     /\ \A item \in items :
          item \notin items'
            => \E s \in Slots :
                 /\ reqs[s].op \in {"update", "delete"}
                 /\ reqs[s].pc \in {"updateOne", "deleteOne"}
                 /\ reqs'[s] /= reqs[s]
                 /\ reqs[s].loc.itemId = item._id
                 /\ reqs[s].user.sub = item.ownerId]_vars

\* Alice's delete of Bob's item was answered 403, Bob's update of it 200,
\* and the item is there with Bob's price.
C1_Witness ==
  \E s1, s2 \in Slots :
    /\ At(s1, "delete", "done")
    /\ At(s2, "update", "done")
    /\ reqs[s1].in.path[2] = reqs[s2].in.path[2]
    /\ reqs[s1].in.header = Bearer(buildToken(Alice, 0))
    /\ reqs[s2].in.header = Bearer(buildToken(Bob, 0))
    /\ reqs[s1].resp.status = 403
    /\ reqs[s2].resp.status = 200
    /\ \E item \in items :
         /\ item._id = reqs[s1].in.path[2]
         /\ item.ownerId = Bob._id
         /\ item.price = Num(12)

ProtectedEndpoint(method, path) ==
  \E i \in 1..Len(Routes) : Routes[i].guard /\ Matches(Routes[i], method, path)

\* C7: every request to a bearer-protected endpoint without a token, or with
\* a malformed, wrongly signed or expired one, is answered 401 at once, and
\* the item store and the user store are unchanged.
C7_BadTokenAnswered401 ==
  [][\A s \in Slots :
       (/\ ItemArrives(s)
        /\ ProtectedEndpoint(reqs'[s].in.method, reqs'[s].in.path)
        /\ authGuard(reqs'[s].in.header, now).resp /= Null)
         => /\ Answered(reqs'[s], 401)
            /\ items' = items
            /\ users' = users]_vars

\* What does hold of the code: every request that express dispatches to a
\* route registered with authGuard (GET /items/mine is not: GET /items/:id,
\* registered before it, takes it) and that has no valid token is answered
\* 401 at once, and the stores are unchanged.
GuardedRoutesAnswer401 ==
  [][\A s \in Slots :
       (/\ ItemArrives(s)
        /\ reqs'[s].op \in GuardedOps
        /\ authGuard(reqs'[s].in.header, now).resp /= Null)
         => /\ Answered(reqs'[s], 401)
            /\ items' = items
            /\ users' = users]_vars

(***************************************************************************)
(* Properties of accounts made by OAuth sync and by registration.          *)
(***************************************************************************)
\* A document made by the upsert of an OAuth sync has no password, and no
\* request changes the password of a stored document: the documents without
\* a password are those first created by an OAuth sync.
OAuthAccountsHaveNoHash ==
  [][/\ \A s \in Slots :
          (At(s, "oauth", "upsert") /\ reqs'[s] /= reqs[s])
            => \A u \in users' \ users :
                 (\A v \in users : v._id /= u._id) => u.password = <<>>
     /\ \A s \in Slots :
          (At(s, "register", "insert") /\ reqs'[s] /= reqs[s])
            => \A u \in users' \ users : u.password /= <<>>
     /\ \A u \in users : \A v \in users' : v._id = u._id => v.password = u.password]_vars

\* A login request with an email and a password, for the email of a stored
\* document that has no password.
LoginOfOAuthAccount(s) ==
  /\ Arrives(s, "login")
  /\ reqs'[s].in.email /= <<>>
  /\ reqs'[s].in.password /= ""
  /\ \E u \in users : u.email = toLowerCase(reqs'[s].in.email) /\ u.password = <<>>

\* C11: after any register, login and oauth requests, every login with the
\* email of a user that an OAuth sync created is answered 401 Invalid email
\* or password, whatever the password.
C11_OAuthOnlyLoginFails ==
  [][\A s \in Slots : LoginOfOAuthAccount(s) => reqs'[s].resp = InvalidCredentials]_vars

\* The same, for the logins that arrive while no two documents share the
\* email: it holds.
OAuthOnlyLoginFailsWhenUnique ==
  [][\A s \in Slots :
       (/\ LoginOfOAuthAccount(s)
        /\ Cardinality(UsersOf(users, toLowerCase(reqs'[s].in.email))) = 1)
         => reqs'[s].resp = InvalidCredentials]_vars

\* The upsert of an OAuth sync keeps every stored document's id, email,
\* createdAt and password, adds no document when one has the email, and the
\* document it answers with is a stored one.
SyncFrame ==
  [][\A s \in Slots :
       (/\ At(s, "oauth", "upsert")
        /\ reqs'[s] /= reqs[s]
        /\ UsersOf(users, toLowerCase(reqs[s].in.body.email)) /= {})
         => /\ {u._id : u \in users'} = {u._id : u \in users}
            /\ \A u \in users : \E v \in users' :
                 /\ v._id = u._id
                 /\ v.email = u.email
                 /\ v.createdAt = u.createdAt
                 /\ v.password = u.password
                 /\ (v /= u => reqs'[s].resp.body.user.id = u._id)
            /\ Cardinality(users' \ users) <= 1]_vars

\* A login with email and password for a registered document (its password
\* is the hash of the one supplied) that an OAuth sync has updated.
LoginAfterSync(s, u) ==
  /\ Arrives(s, "login")
  /\ u.email = toLowerCase(reqs'[s].in.email)
  /\ reqs'[s].in.password /= ""
  /\ u.password = bcryptHash(reqs'[s].in.password)
  /\ u.provider /= "credentials"

\* C12: an OAuth sync for the email of a registered user keeps the record's
\* id, createdAt and password, and a login with the original password then
\* succeeds and returns that user's id.
C12_SyncKeepsCredentials ==
  [][\A s \in Slots : \A u \in users :
       LoginAfterSync(s, u)
         => /\ reqs'[s].resp.status = 200
            /\ reqs'[s].resp.body.user.id = u._id]_vars

\* The same, for the logins that arrive while no two documents share the
\* email: it holds.
SyncKeepsCredentialsWhenUnique ==
  [][\A s \in Slots : \A u \in users :
       (LoginAfterSync(s, u) /\ Cardinality(UsersOf(users, u.email)) = 1)
         => /\ reqs'[s].resp.status = 200
            /\ reqs'[s].resp.body.user.id = u._id]_vars

\* A registered user was synced and then logged in with the password of the
\* registration; the email is held by that one document.
SyncedLoginReached ==
  \E s1, s2 \in Slots : \E u \in users :
    /\ OAuthOk(s1)
    /\ At(s2, "login", "done")
    /\ reqs[s2].resp.status = 200
    /\ reqs[s2].resp.body.user.id = u._id
    /\ reqs[s1].resp.body.user.id = u._id
    /\ u.password = bcryptHash("p1")
    /\ u.provider = "google"
    /\ Cardinality(UsersOf(users, u.email)) = 1

(***************************************************************************)
(* The create handler under complete, incomplete and ill-priced bodies,    *)
(* from the state Seeded: r1 carries Alice's requests, r2 Bob's.           *)
(***************************************************************************)
Soup == [name |-> Str("Soup"), summary |-> Str("s"), description |-> Str("d"),
         category |-> Str("Starter"), price |-> Num(5)]

\* Soup with field f set to v.
SoupWith(f, v) == Body([g \in DOMAIN Soup \cup {f} |-> IF g = f THEN v ELSE Soup[g]])

\* Soup without field f.
SoupWithout(f) == Body([g \in DOMAIN Soup \ {f} |-> Soup[g]])

\* A complete body that also names Bob as owner and carries its own
\* image, priority and creation time.
ClaimedBody ==
  Body([ownerId |-> Str(UserOid(2)), userId |-> Str(UserOid(2)),
        ownerEmail |-> Str("b"), createdAt |-> Num(9),
        image |-> Str("img"), priority |-> Str("high")] @@ Soup)

AcceptableBodies ==
  {SoupBody, SoupWith("price", Num(0)), SoupWith("price", Str("12")),
   SoupWith("price", Str("")), SoupWith("price", JsNull), ClaimedBody}

IncompleteBodies ==
  {SoupWithout(f) : f \in {"name", "summary", "description", "category", "price"}}
    \cup {SoupWith(f, Str("")) : f \in {"name", "summary", "description", "category"}}

IllPricedBodies == {SoupWith("price", Num(0 - 1)), SoupWith("price", Str("abc"))}

AliceToken == buildToken(Alice, 0)
BobToken == buildToken(Bob, 0)

AliceCreates ==
  {Request("POST", <<"products">>, Bearer(AliceToken), b) :
     b \in AcceptableBodies \cup IncompleteBodies \cup IllPricedBodies}
    \cup {Request("POST", <<"items">>, Bearer(AliceToken), SoupBody)}

BobCreates == {Request("POST", <<"items">>, Bearer(BobToken), SoupWith("price", Num(0)))}

NextCreate ==
  \/ Tick(5)
  \/ \E rq \in AliceCreates : CreateInsert("r1", rq)
  \/ \E rq \in BobCreates : CreateInsert("r2", rq)
  \/ \E s \in Slots : CreateFind(s)

SpecCreate == InitItems /\ [][NextCreate]_vars

(***************************************************************************)
(* Properties of create.                                                   *)
(***************************************************************************)
RequiredText == {"name", "summary", "description", "category"}

\* A create request with a valid token enters slot s.
CreateArrives(s) ==
  /\ Arrives(s, "create")
  /\ authGuard(reqs'[s].in.header, now).resp = Null

TextMissing(body) == \E f \in RequiredText : body[f] \in {Undefined, Str("")}

PriceUnacceptable(body) ==
  \/ body.price = Undefined
  \/ Number(body.price) = NaN
  \/ (Number(body.price) /= NaN /\ Number(body.price)[2] < 0)

\* C13: a create whose name, summary, description or category is missing or
\* empty, whose price is absent, or whose price is negative or not a number
\* is answered 400 and adds no item; a create with the required fields and
\* price 0 is accepted, stores one item of price 0 and is answered 201.
C13_CreateValidates ==
  [][\A s \in Slots :
       /\ (CreateArrives(s) /\ (TextMissing(reqs'[s].in.body) \/ PriceUnacceptable(reqs'[s].in.body)))
            => Answered(reqs'[s], 400) /\ items' = items
       /\ (CreateArrives(s) /\ ~TextMissing(reqs'[s].in.body) /\ reqs'[s].in.body.price = Num(0))
            => /\ reqs'[s].pc = "findOne"
               /\ items \subseteq items'
               /\ Cardinality(items' \ items) = 1
               /\ \A i \in items' \ items : i.price = Num(0) /\ i._id = reqs'[s].loc.insertedId
       /\ (At(s, "create", "findOne") /\ reqs'[s] /= reqs[s])
            => /\ Answered(reqs'[s], 201)
               /\ items' = items
               /\ \E i \in items : i._id = reqs'[s].resp.body.id /\ i.price = reqs'[s].resp.body.price]_vars

\* Alice's create with price "abc" was answered 400 and Bob's create with
\* price 0 was answered 201 with price 0.
C13_Witness ==
  /\ At("r1", "create", "done")
  /\ reqs["r1"].in.body.price = Str("abc")
  /\ reqs["r1"].resp.status = 400
  /\ At("r2", "create", "done")
  /\ reqs["r2"].in.body.price = Num(0)
  /\ reqs["r2"].resp.status = 201
  /\ reqs["r2"].resp.body.price = Num(0)
  /\ Cardinality(items) = 1

\* C14: a create that stores an item stamps ownerId, userId and ownerEmail
\* from the caller's token whatever the body carries, the default image and
\* priority "medium" when the body has none, and equal createdAt and
\* updatedAt; the 201 response's ownerId is the caller's id.
C14_CreateStampsOwner ==
  [][\A s \in Slots :
       /\ (CreateArrives(s) /\ reqs'[s].pc = "findOne")
            => LET body == reqs'[s].in.body
                   caller == reqs'[s].in.header[1]
               IN /\ items' \ items /= {}
                  /\ \A i \in items' \ items :
                       /\ i.ownerId = caller.sub
                       /\ i.userId = caller.sub
                       /\ i.ownerEmail = caller.email
                       /\ (body.image = Undefined => i.image = Str(DEFAULT_ITEM_IMAGE))
                       /\ (body.priority = Undefined => i.priority = Str("medium"))
                       /\ i.createdAt = i.updatedAt
       /\ (At(s, "create", "findOne") /\ Answered(reqs'[s], 201))
            => reqs'[s].resp.body.ownerId = reqs[s].in.header[1].sub]_vars

\* Alice's create with a body naming Bob as owner was answered 201 with
\* Alice as owner, and Bob's create without image and priority stored the
\* defaults.
C14_Witness ==
  /\ At("r1", "create", "done")
  /\ reqs["r1"].in.body = ClaimedBody
  /\ reqs["r1"].resp.status = 201
  /\ reqs["r1"].resp.body.ownerId = Alice._id
  /\ \E i \in items :
       /\ i._id = reqs["r1"].resp.body.id
       /\ i.ownerId = Alice._id /\ i.userId = Alice._id /\ i.ownerEmail = Alice.email
       /\ i.image = Str("img") /\ i.priority = Str("high")
  /\ \E i \in items :
       /\ i.ownerId = Bob._id
       /\ i.image = Str(DEFAULT_ITEM_IMAGE) /\ i.priority = Str("medium")
       /\ i.createdAt = 5 /\ i.updatedAt = 5

(***************************************************************************)
(* The update handler under empty, price-only, ill-priced and              *)
(* owner-claiming bodies, with creates, from the state Seeded.             *)
(***************************************************************************)
\* Only fields the update does not read.
ForeignOnlyBody ==
  Body([ownerId |-> Str(UserOid(2)), userId |-> Str(UserOid(2)),
        ownerEmail |-> Str("b"), createdAt |-> Num(9)])

\* A new name, and Bob as owner.
TransferBody ==
  Body([name |-> Str("Stew"), ownerId |-> Str(UserOid(2)), userId |-> Str(UserOid(2)),
        ownerEmail |-> Str("b"), createdAt |-> Num(9)])

NegativePriceBody == Body([price |-> Num(0 - 1)])

\* An invalid price with a valid name.
MixedBody == Body([name |-> Str("Stew"), price |-> Str("abc")])

\* A negative price with a valid name and a valid priority.
MixedNegativeBody == Body([name |-> Str("Stew"), priority |-> Str("high"), price |-> Num(0 - 1)])

UpdateBodies == {PriceBody, ForeignOnlyBody, TransferBody}

AliceUpdates ==
  {Request("PUT", <<"products", id>>, Bearer(AliceToken), b) : id \in ItemIds, b \in UpdateBodies}
    \cup {Request("POST", <<"products">>, Bearer(AliceToken), SoupBody)}

\* A second session of Alice, sending empty bodies.
AliceEmptyUpdates ==
  {Request("PUT", <<"products", id>>, Bearer(AliceToken), NoBody) : id \in ItemIds}

BobUpdates ==
  {Request("PUT", <<"products", id>>, Bearer(BobToken), TransferBody) : id \in ItemIds}

NextUpdate ==
  \/ Tick(5)
  \/ \E rq \in AliceUpdates : CreateInsert("r1", rq)
  \/ \E rq \in AliceUpdates : UpdateFind("r1", rq)
  \/ \E rq \in BobUpdates \cup AliceEmptyUpdates : UpdateFind("r2", rq)
  \/ \E s \in Slots : CreateFind(s)
  \/ \E s \in Slots : UpdateApply(s)
  \/ \E s \in Slots : UpdateRefetch(s)

SpecUpdate == InitItems /\ [][NextUpdate]_vars

(***************************************************************************)
(* Properties of update.                                                   *)
(***************************************************************************)
\* An update request with a valid token enters slot s, for a stored item
\* whose ownerId is the caller's id.
OwnerUpdateArrives(s) ==
  /\ Arrives(s, "update")
  /\ authGuard(reqs'[s].in.header, now).resp = Null
  /\ \E i \in items : i._id = reqs'[s].in.path[2] /\ i.ownerId = reqs'[s].in.header[1].sub

NoUpdatableField(body) == \A f \in BodyFields : body[f] = Undefined

OnlyValidPrice(body) ==
  /\ \A f \in DOMAIN body : f /= "price" => body[f] = Undefined
  /\ body.price /= Undefined
  /\ Number(body.price) /= NaN
  /\ Number(body.price)[2] >= 0

\* C15: an owner's update whose body has none of the updatable fields is
\* answered 400 and leaves the items, updatedAt included, as they are; an
\* owner's update whose body has only a valid price is accepted, its write
\* sets price and updatedAt of that item and nothing else in any item, and
\* it is answered 200.
C15_UpdateFrame ==
  [][\A s \in Slots :
       /\ (OwnerUpdateArrives(s) /\ NoUpdatableField(reqs'[s].in.body))
            => Answered(reqs'[s], 400) /\ items' = items
       /\ (OwnerUpdateArrives(s) /\ OnlyValidPrice(reqs'[s].in.body))
            => reqs'[s].pc = "updateOne" /\ items' = items
       /\ (At(s, "update", "updateOne") /\ reqs'[s] /= reqs[s] /\ OnlyValidPrice(reqs[s].in.body))
            => \E i \in items : \E t \in 0..now :
                 /\ i._id = reqs[s].in.path[2]
                 /\ items' = (items \ {i}) \cup
                      {[i EXCEPT !.price = Number(reqs[s].in.body.price), !.updatedAt = t]}
       /\ (At(s, "update", "findOne") /\ reqs'[s] /= reqs[s] /\ OnlyValidPrice(reqs[s].in.body))
            => /\ Answered(reqs'[s], 200)
               /\ reqs'[s].resp.body.price = Number(reqs[s].in.body.price)
               /\ items' = items]_vars

\* Alice's update of the first item with only price 12, sent at time 5, was
\* answered 200: that item has price 12 and updatedAt 5 and is otherwise as
\* created, the second item is as created, and her update with an empty
\* body was answered 400.
C15_Witness ==
  /\ At("r1", "update", "done")
  /\ reqs["r1"].in.body = PriceBody
  /\ reqs["r1"].in.path[2] = ItemOid(1)
  /\ reqs["r1"].resp.status = 200
  /\ At("r2", "update", "done")
  /\ reqs["r2"].in.body = NoBody
  /\ reqs["r2"].resp = Resp(400, Message("No changes provided"))
  /\ \E i \in items :
       /\ i._id = ItemOid(1) /\ i.price = Num(12) /\ i.updatedAt = 5 /\ i.createdAt = 0
       /\ i.name = Str("Soup") /\ i.ownerId = Alice._id
  /\ \E i \in items :
       /\ i._id = ItemOid(2) /\ i.price = Num(5) /\ i.updatedAt = i.createdAt

\* C16: no step changes ownerId, userId, ownerEmail or createdAt of a stored
\* item, whatever the update bodies carry, and an update by a caller who is
\* not the item's owner is answered 403 and changes nothing.
C16_OwnershipImmutable ==
  [][/\ \A i \in items : \A j \in items' :
          j._id = i._id
            => /\ j.ownerId = i.ownerId
               /\ j.userId = i.userId
               /\ j.ownerEmail = i.ownerEmail
               /\ j.createdAt = i.createdAt
     /\ \A s \in Slots :
          (/\ Arrives(s, "update")
           /\ authGuard(reqs'[s].in.header, now).resp = Null
           /\ \E i \in items :
                /\ i._id = reqs'[s].in.path[2]
                /\ i.ownerId /= reqs'[s].in.header[1].sub)
            => Answered(reqs'[s], 403) /\ items' = items]_vars

\* Alice's update naming Bob as owner was answered 200: the item took the
\* new name at time 5 and still carries Alice as owner and its creation
\* time, and Bob's update of it was answered 403.
C16_Witness ==
  /\ At("r1", "update", "done")
  /\ reqs["r1"].in.body = TransferBody
  /\ reqs["r1"].resp.status = 200
  /\ reqs["r1"].resp.body.ownerId = Alice._id
  /\ At("r2", "update", "done")
  /\ reqs["r2"].in.header = Bearer(BobToken)
  /\ reqs["r2"].in.path = reqs["r1"].in.path
  /\ reqs["r2"].resp.status = 403
  /\ \E i \in items :
       /\ i._id = reqs["r1"].in.path[2]
       /\ i.name = Str("Stew")
       /\ i.ownerId = Alice._id /\ i.userId = Alice._id /\ i.ownerEmail = Alice.email
       /\ i.createdAt = 0 /\ i.updatedAt = 5

(***************************************************************************)
(* Creates and updates under every kind of price, by two sessions of       *)
(* Alice, from the state Seeded.                                           *)
(***************************************************************************)
Prices == {Num(5), Num(0), Num(0 - 1), Str("12"), Str("-1"), Str("abc"), Str(""), JsNull}

PricedCreates ==
  {Request("POST", <<"products">>, Bearer(AliceToken), SoupWith("price", p)) : p \in Prices}

PricedUpdates ==
  {Request("PUT", <<"products", id>>, Bearer(AliceToken), Body([price |-> p])) :
     id \in ItemIds, p \in Prices}
    \cup {Request("PUT", <<"products", id>>, Bearer(AliceToken), MixedBody) : id \in ItemIds}

NextPrice ==
  \/ \E rq \in PricedCreates : CreateInsert("r1", rq)
  \/ CreateFind("r1")
  \/ \E rq \in PricedUpdates : UpdateFind("r2", rq)
  \/ UpdateApply("r2")
  \/ UpdateRefetch("r2")

SpecPrice == InitItems /\ [][NextPrice]_vars

\* C17: in every state reached by creates and updates, the price of every
\* stored item is a number that is at least 0.
C17_PriceNonNegative ==
  \A i \in items : i.price[1] = "number" /\ i.price[2] >= 0

\* A create with price -1 and an update with price "abc" were answered 400,
\* and two stored items have the prices 12 and 0.
C17_Witness ==
  /\ At("r1", "create", "done")
  /\ reqs["r1"].in.body.price = Num(0 - 1)
  /\ reqs["r1"].resp.status = 400
  /\ At("r2", "update", "done")
  /\ reqs["r2"].in.body.price = Str("abc")
  /\ reqs["r2"].resp.status = 400
  /\ \E i, j \in items : i.price = Num(12) /\ j.price = Num(0)

(***************************************************************************)
(* GET /items: the public listing.  The query values are sequences of      *)
(* characters, <<>> when absent or empty; the handler hands them to        *)
(* MongoDB as regular expressions with option "i".                         *)
(***************************************************************************)
\* The characters of the names and categories the items of the model carry.
Chars ==
  [s \in {"Soup", "Stew", "Starter", "Main"} |->
     CASE s = "Soup" -> <<"S", "o", "u", "p">>
       [] s = "Stew" -> <<"S", "t", "e", "w">>
       [] s = "Starter" -> <<"S", "t", "a", "r", "t", "e", "r">>
       [] s = "Main" -> <<"M", "a", "i", "n">>]

\* The characters of a stored string value; a value that is no string
\* matches no regular expression.
CharsOf(v) == IF v[1] = "string" /\ v[2] \in DOMAIN Chars THEN Chars[v[2]] ELSE <<"?">>

\* A pattern MongoDB compiles: an unclosed group is an error.
regexValid(pattern) == \A i \in DOMAIN pattern : pattern[i] /= "("

\* One pattern character against one text character, ignoring case: "."
\* matches every character.
regexCharMatches(p, c) == p = "." \/ LowerChar(p) = LowerChar(c)

\* { $regex: pattern, $options: "i" }: the pattern matches somewhere.
regexSearch(pattern, text) ==
  \E k \in 0..(Len(text) - Len(pattern)) :
    \A i \in DOMAIN pattern : regexCharMatches(pattern[i], text[k + i])

\* { $regex: `^${pattern}$`, $options: "i" }: the pattern matches the whole.
regexWhole(pattern, text) ==
  /\ Len(pattern) = Len(text)
  /\ \A i \in DOMAIN pattern : regexCharMatches(pattern[i], text[i])

Query(search, category) == [search |-> search, category |-> category]

\* find(filters)
findFiltered(store, query) ==
  {i \in store :
     /\ (query.search /= <<>> => regexSearch(query.search, CharsOf(i.name)))
     /\ (query.category /= <<>> => regexWhole(query.category, CharsOf(i.category)))}

ListItems(s, query) ==
  /\ Free(s)
  /\ Route("GET", <<"items">>) = "listItems"
  /\ LET in == [method |-> "GET", path |-> <<"items">>, query |-> query]
     IN IF ~regexValid(query.search) \/ ~regexValid(query.category)
        THEN reqs' = [reqs EXCEPT ![s] =
               Done("listItems", in, Resp(500, Message("Unable to fetch items")))]
        ELSE \E found \in sortNewestFirst(findFiltered(items, query)) :
               reqs' = [reqs EXCEPT ![s] = Done("listItems", in,
                 Resp(200, [i \in DOMAIN found |-> mapPublicItem(found[i])]))]
  /\ UNCHANGED <<users, items, now, userSeq, itemSeq, tokens>>

(***************************************************************************)
(* Deletes by the owner, followed and overlapped by gets, listings,        *)
(* updates and deletes of the same ids, from the state Seeded.             *)
(***************************************************************************)
NoQuery == Query(<<>>, <<>>)

OwnerRequests ==
  {Request("POST", <<"products">>, Bearer(AliceToken), SoupBody)}
    \cup {Request("DELETE", <<"products", id>>, Bearer(AliceToken), NoBody) : id \in ItemIds}
    \cup {Request("DELETE", <<"items", id>>, Bearer(AliceToken), NoBody) : id \in ItemIds}
    \cup {Request("PUT", <<"products", id>>, Bearer(AliceToken), PriceBody) : id \in ItemIds}

OtherRequests ==
  {Request("GET", <<"items", id>>, NoHeader, NoBody) : id \in ItemIds}
    \cup {Request("DELETE", <<"products", id>>, Bearer(t), NoBody) :
            id \in ItemIds, t \in {AliceToken, BobToken}}
    \cup {Request("PUT", <<"products", id>>, Bearer(BobToken), PriceBody) : id \in ItemIds}
    \cup {Request("GET", <<"products">>, Bearer(AliceToken), NoBody)}

NextDelete ==
  \/ \E rq \in OwnerRequests : CreateInsert("r1", rq)
  \/ \E rq \in OwnerRequests : DeleteFind("r1", rq)
  \/ \E rq \in OwnerRequests : UpdateFind("r1", rq)
  \/ \E rq \in OtherRequests : GetItem("r2", rq)
  \/ \E rq \in OtherRequests : DeleteFind("r2", rq)
  \/ \E rq \in OtherRequests : UpdateFind("r2", rq)
  \/ \E rq \in OtherRequests : ListMine("r2", rq)
  \/ ListItems("r2", NoQuery)
  \/ \E s \in Slots : CreateFind(s)
  \/ \E s \in Slots : DeleteApply(s)
  \/ \E s \in Slots : UpdateApply(s)
  \/ \E s \in Slots : UpdateRefetch(s)

SpecDelete == InitItems /\ [][NextDelete]_vars

(***************************************************************************)
(* Properties of delete.                                                   *)
(***************************************************************************)
\* The ids of the items that were created and are no longer stored: only the
\* deleteOne of a delete removes an item.
GoneIds == {ItemOid(n) : n \in 1..(itemSeq - 1)} \ {i._id : i \in items}

\* The ids of the items of a listing response.
ListedIds(resp) == {resp.body[k].id : k \in DOMAIN resp.body}

\* C18: the owner's delete, when it is answered 200, has removed the item,
\* and from then on the item stays absent: a get of its id is answered 404,
\* a delete or update of its id by any authenticated caller is answered
\* 404 and changes nothing, and no listing contains it.
C18_DeleteIsFinal ==
  [][/\ \A s \in Slots :
          (At(s, "delete", "deleteOne") /\ reqs'[s] /= reqs[s])
            => /\ Answered(reqs'[s], 200)
               /\ \A i \in items' : i._id /= reqs[s].in.path[2]
     /\ GoneIds \subseteq GoneIds'
     /\ \A s \in Slots :
          (Arrives(s, "getItem") /\ reqs'[s].in.path[2] \in GoneIds)
            => Answered(reqs'[s], 404)
     /\ \A s \in Slots :
          (/\ Arrives(s, "delete") \/ Arrives(s, "update")
           /\ authGuard(reqs'[s].in.header, now).resp = Null
           /\ reqs'[s].in.path[2] \in GoneIds)
            => Answered(reqs'[s], 404) /\ items' = items
     /\ \A s \in Slots :
          (Arrives(s, "list") \/ Arrives(s, "listItems"))
            => /\ Answered(reqs'[s], 200)
               /\ ListedIds(reqs'[s].resp) \cap GoneIds = {}]_vars

\* Alice's delete of the first item was answered 200 and, with the item
\* gone, her second delete of it was answered 404.
C18_Witness ==
  /\ At("r1", "delete", "done")
  /\ reqs["r1"].in.path[2] = ItemOid(1)
  /\ reqs["r1"].resp = Resp(200, Message("Product deleted"))
  /\ At("r2", "delete", "done")
  /\ reqs["r2"].in.path[2] = ItemOid(1)
  /\ reqs["r2"].in.header = Bearer(AliceToken)
  /\ reqs["r2"].resp = Resp(404, Message("Product not found"))
  /\ ItemOid(1) \in GoneIds

(***************************************************************************)
(* Properties of the listings.                                             *)
(***************************************************************************)
\* A request of the given method and path, with a valid token, enters slot s
\* and is answered in the same step.
AnsweredAtOnce(s, method, path) ==
  /\ Free(s)
  /\ reqs'[s] /= reqs[s]
  /\ reqs'[s].op \in {"getItem", "list"}
  /\ reqs'[s].in.method = method
  /\ reqs'[s].in.path = path
  /\ authGuard(reqs'[s].in.header, now).resp = Null

\* The response is 200 with exactly the items of the store that the
\* caller owns (userId or ownerId is the caller's id), newest first.
ListsOwned(resp, store, sub) ==
  /\ resp.status = 200
  /\ ListedIds(resp) = {i._id : i \in {j \in store : j.userId = sub \/ j.ownerId = sub}}
  /\ Len(resp.body) = Cardinality(ListedIds(resp))
  /\ \A k, l \in DOMAIN resp.body : k < l => resp.body[k].createdAt >= resp.body[l].createdAt

\* C19: GET /items/mine with a valid token returns exactly the caller's
\* items, newest first, as GET /products does.
C19_MineListsOwned ==
  [][\A s \in Slots :
       AnsweredAtOnce(s, "GET", <<"items", "mine">>)
         => ListsOwned(reqs'[s].resp, items, reqs'[s].in.header[1].sub)]_vars

\* GET /products does return exactly the caller's items, newest first.
ProductsListsOwned ==
  [][\A s \in Slots :
       AnsweredAtOnce(s, "GET", <<"products">>)
         => ListsOwned(reqs'[s].resp, items, reqs'[s].in.header[1].sub)]_vars

\* GET /products answered with a list of one item.
ProductsListed ==
  /\ At("r1", "list", "done")
  /\ reqs["r1"].in.path = <<"products">>
  /\ reqs["r1"].resp.status = 200
  /\ Len(reqs["r1"].resp.body) = 1

(***************************************************************************)
(* The public listing under searches and categories, over the items two    *)
(* users create as time passes, from the state Seeded.                     *)
(***************************************************************************)
StewBody ==
  Body([name |-> Str("Stew"), summary |-> Str("s"), description |-> Str("d"),
        category |-> Str("Main"), price |-> Num(5)])

ListedCreates ==
  {Request("POST", <<"items">>, Bearer(AliceToken), SoupBody),
   Request("POST", <<"items">>, Bearer(BobToken), StewBody)}

\* Plain text in both cases, text that is part of a category, and text with
\* characters that mean something in a regular expression.
Searches == {<<>>, <<"o", "u">>, <<"S", "T">>, <<"x">>, <<"S", ".">>, <<"(">>}
Categories == {<<>>, <<"m", "a", "i", "n">>, <<"M", "a", "i">>, <<"M", ".", ".", "n">>}
Queries == {Query(q, c) : q \in Searches, c \in Categories}

NextListing ==
  \/ Tick(5)
  \/ \E rq \in ListedCreates : CreateInsert("r1", rq)
  \/ CreateFind("r1")
  \/ \E query \in Queries : ListItems("r2", query)

SpecListing == InitItems /\ [][NextListing]_vars

\* text contains part, ignoring case.
ContainsIgnoringCase(text, part) ==
  \E k \in 0..(Len(text) - Len(part)) :
    \A i \in DOMAIN part : LowerChar(text[k + i]) = LowerChar(part[i])

\* The items the listing is to return for the query.
Wanted(store, query) ==
  {i \in store :
     /\ (query.search /= <<>> => ContainsIgnoringCase(CharsOf(i.name), query.search))
     /\ (query.category /= <<>> => SameEmailIgnoringCase(CharsOf(i.category), query.category))}

ListingExact(s) ==
  /\ reqs'[s].resp.status = 200
  /\ ListedIds(reqs'[s].resp) = {i._id : i \in Wanted(items, reqs'[s].in.query)}
  /\ Len(reqs'[s].resp.body) = Cardinality(ListedIds(reqs'[s].resp))
  /\ \A k, l \in DOMAIN reqs'[s].resp.body :
       k < l => reqs'[s].resp.body[k].createdAt >= reqs'[s].resp.body[l].createdAt

\* C20: the public listing returns, newest first, exactly the items whose
\* name contains the search text ignoring case (when given) and whose
\* category equals the category parameter ignoring case (when given); all
\* items when neither is given.
C20_ListingFilters ==
  [][\A s \in Slots : Arrives(s, "listItems") => ListingExact(s)]_vars

PlainText(text) == \A i \in DOMAIN text : text[i] \notin {".", "("}

\* The same, for searches and categories without characters that a regular
\* expression gives a meaning: it holds.
ListingFiltersPlainText ==
  [][\A s \in Slots :
       (/\ Arrives(s, "listItems")
        /\ PlainText(reqs'[s].in.query.search)
        /\ PlainText(reqs'[s].in.query.category))
         => ListingExact(s)]_vars

\* The search "ST" with the category "main" returned the one item named
\* Stew of the two stored.
PlainListingReached ==
  /\ At("r2", "listItems", "done")
  /\ reqs["r2"].in.query = Query(<<"S", "T">>, <<"m", "a", "i", "n">>)
  /\ Len(reqs["r2"].resp.body) = 1
  /\ reqs["r2"].resp.body[1].name = Str("Stew")
  /\ Cardinality(items) = 2

(***************************************************************************)
(* Creates and updates under every kind of priority, by two sessions of    *)
(* Alice, from the state Seeded.                                           *)
(***************************************************************************)
Priorities == {Str("low"), Str("high"), Str("urgent"), Str("")}

PriorityCreates ==
  {Request("POST", <<"products">>, Bearer(AliceToken), SoupWith("priority", p)) : p \in Priorities}
    \cup {Request("POST", <<"products">>, Bearer(AliceToken), SoupBody)}

PriorityUpdates ==
  {Request("PUT", <<"products", id>>, Bearer(AliceToken), Body([priority |-> p])) :
     id \in ItemIds, p \in Priorities}

NextPriority ==
  \/ \E rq \in PriorityCreates : CreateInsert("r1", rq)
  \/ CreateFind("r1")
  \/ \E rq \in PriorityUpdates : UpdateFind("r2", rq)
  \/ UpdateApply("r2")
  \/ UpdateRefetch("r2")

SpecPriority == InitItems /\ [][NextPriority]_vars

PriorityLevels == {Str("low"), Str("medium"), Str("high")}

\* C21: in every state reached by creates and updates, the priority of every
\* stored item is "low", "medium" or "high".
C21_PriorityInRange == \A i \in items : i.priority \in PriorityLevels

\* The same for the items of creates that carry no priority, as long as no
\* update has named one: they hold the default "medium".
DefaultPriorityIsMedium ==
  [][\A s \in Slots :
       (CreateArrives(s) /\ reqs'[s].pc = "findOne" /\ Falsy(reqs'[s].in.body.priority))
         => \A i \in items' \ items : i.priority = Str("medium")]_vars

(***************************************************************************)
(* The order of the checks of update and delete: ids that are no ObjectId, *)
(* ids of no item and ids of Alice's items, sent by Alice and by Bob with  *)
(* empty, ill-priced and valid bodies as time passes, from the state       *)
(* Seeded.                                                                 *)
(***************************************************************************)
\* "mine" is no ObjectId; the id of a user is one, and the id of no item.
RequestedIds == ItemIds \cup {UserOid(1), "mine"}

CreatorRequests ==
  {Request("POST", <<"products">>, Bearer(AliceToken), SoupBody)}
    \cup {Request("DELETE", <<"products", id>>, Bearer(AliceToken), NoBody) : id \in RequestedIds}

CallerRequests ==
  {Request("PUT", <<"products", id>>, Bearer(BobToken), b) :
     id \in RequestedIds, b \in {NoBody, MixedBody}}
    \cup {Request("PUT", <<"products", id>>, Bearer(AliceToken), b) :
            id \in RequestedIds, b \in {NoBody, MixedBody, MixedNegativeBody, PriceBody}}
    \cup {Request("DELETE", <<"items", id>>, Bearer(BobToken), NoBody) : id \in RequestedIds}

NextOrder ==
  \/ Tick(5)
  \/ \E rq \in CreatorRequests : CreateInsert("r1", rq)
  \/ \E rq \in CreatorRequests : DeleteFind("r1", rq)
  \/ \E rq \in CallerRequests : UpdateFind("r2", rq)
  \/ \E rq \in CallerRequests : DeleteFind("r2", rq)
  \/ CreateFind("r1")
  \/ \E s \in Slots : DeleteApply(s)
  \/ UpdateApply("r2")
  \/ UpdateRefetch("r2")

SpecOrder == InitItems /\ [][NextOrder]_vars

\* An update or delete request with a valid token enters slot s.
MutationArrives(s) ==
  /\ Arrives(s, "update") \/ Arrives(s, "delete")
  /\ authGuard(reqs'[s].in.header, now).resp = Null

Stored(id) == \E i \in items : i._id = id

OwnedByCaller(id, sub) == \E i \in items : i._id = id /\ (i.ownerId = sub \/ i.userId = sub)

InvalidPrice(body) ==
  /\ body.price /= Undefined
  /\ Number(body.price) = NaN \/ (Number(body.price) /= NaN /\ Number(body.price)[2] < 0)

\* C22: an authenticated update or delete is answered 400 when the id is no
\* ObjectId; else 404 when no item has the id, whoever the caller is; else
\* 403 when the caller is not the owner, whatever the body (an invalid
\* price and an empty body included); and only an owner's update is answered
\* 400 for an invalid price or a body without updatable fields.  None of
\* these requests changes the items.
C22_CheckOrder ==
  [][\A s \in Slots :
       MutationArrives(s) =>
         LET rq == reqs'[s].in
             id == rq.path[2]
             sub == rq.header[1].sub
         IN /\ ~ObjectIdIsValid(id)
                 => reqs'[s] = Done(reqs'[s].op, rq, Resp(400, Message("Invalid product id")))
                      /\ items' = items
            /\ (ObjectIdIsValid(id) /\ ~Stored(id))
                 => reqs'[s] = Done(reqs'[s].op, rq, Resp(404, Message("Product not found")))
                      /\ items' = items
            /\ (Stored(id) /\ ~OwnedByCaller(id, sub))
                 => Answered(reqs'[s], 403) /\ items' = items
            /\ (/\ reqs'[s].op = "update"
                /\ OwnedByCaller(id, sub)
                /\ InvalidPrice(rq.body) \/ NoUpdatableField(rq.body))
                 => Answered(reqs'[s], 400) /\ items' = items
            /\ (Stored(id) /\ OwnedByCaller(id, sub) /\ reqs'[s].op = "delete")
                 => reqs'[s].pc = "deleteOne"]_vars

\* Bob's update of Alice's stored item with a valid name and the price "abc"
\* was answered 403, and Alice's delete of a well-formed id that no item has
\* was answered 404.
C22_Witness ==
  /\ At("r2", "update", "done")
  /\ reqs["r2"].in.header = Bearer(BobToken)
  /\ reqs["r2"].in.body = MixedBody
  /\ reqs["r2"].resp = Resp(403, Message("You can only edit your own products"))
  /\ \E i \in items : i._id = reqs["r2"].in.path[2] /\ i.ownerId = Alice._id
  /\ At("r1", "delete", "done")
  /\ reqs["r1"].in.path[2] = UserOid(1)
  /\ reqs["r1"].resp = Resp(404, Message("Product not found"))

(***************************************************************************)
(* Properties of an update that carries an invalid price.                  *)
(***************************************************************************)
OtherFieldGiven(body) == \E f \in UpdatableFields : body[f] /= Undefined

\* C23: an owner's update whose body has a price that is negative or not a
\* number, together with values for other updatable fields, is answered 400
\* at once and writes nothing: every stored item, its updatedAt included,
\* is as before, and the request has no later step.
C23_InvalidPriceAppliesNothing ==
  [][\A s \in Slots :
       (/\ OwnerUpdateArrives(s)
        /\ InvalidPrice(reqs'[s].in.body)
        /\ OtherFieldGiven(reqs'[s].in.body))
         => /\ reqs'[s] = Done("update", reqs'[s].in,
                            Resp(400, Message("Price must be a valid positive number")))
            /\ items' = items]_vars

\* Alice's update of her stored item with the name Stew, the priority high
\* and the price -1 was answered 400; the item still has the name Soup, the
\* priority medium, the price 5 and the updatedAt of its creation at time 0.
C23_Witness ==
  /\ At("r2", "update", "done")
  /\ reqs["r2"].in.body = MixedNegativeBody
  /\ reqs["r2"].resp.status = 400
  /\ now = 5
  /\ \E i \in items :
       /\ i._id = reqs["r2"].in.path[2]
       /\ i.ownerId = Alice._id
       /\ i.name = Str("Soup") /\ i.priority = Str("medium") /\ i.price = Num(5)
       /\ i.updatedAt = 0

(***************************************************************************)
(* Properties of an update that overlaps a delete of the same item.        *)
(***************************************************************************)
\* The item was stored with every field by a create of its owner.
WholeRecord(i) ==
  /\ i.ownerId = i.userId
  /\ \E u \in users : u._id = i.ownerId /\ u.email = i.ownerEmail
  /\ \A f \in BodyFields : i[f] /= Undefined

\* C25: the deleteOne of a delete removes the item, and no step brings an
\* absent item back, whatever updates of it are in flight: the updateOne of
\* an update whose item is gone writes nothing, its response is then 500
\* Unable to update product, an update is answered 200 only with an item
\* that is stored, and every stored item is a whole record.
C25_DeleteBeatsUpdate ==
  [][/\ \A s \in Slots :
          (At(s, "delete", "deleteOne") /\ reqs'[s] /= reqs[s])
            => reqs[s].loc.itemId \in GoneIds'
     /\ GoneIds \subseteq GoneIds'
     /\ \A i \in items' : WholeRecord(i)
     /\ \A s \in Slots :
          (At(s, "update", "updateOne") /\ reqs'[s] /= reqs[s] /\ reqs[s].loc.itemId \in GoneIds)
            => items' = items /\ reqs'[s].pc = "findOne"
     /\ \A s \in Slots :
          (At(s, "update", "findOne") /\ reqs'[s] /= reqs[s])
            => /\ items' = items
               /\ IF reqs[s].loc.itemId \in GoneIds
                  THEN reqs'[s] = Done("update", reqs[s].in,
                                       Resp(500, Message("Unable to update product")))
                  ELSE /\ Answered(reqs'[s], 200)
                       /\ \E i \in items : i._id = reqs'[s].resp.body.id]_vars

\* Alice's update and delete of her first item overlapped: the delete was
\* answered 200, the update 500, and the item is gone.
C25_Witness ==
  /\ At("r1", "update", "done")
  /\ reqs["r1"].in.path[2] = ItemOid(1)
  /\ reqs["r1"].resp = Resp(500, Message("Unable to update product"))
  /\ At("r2", "delete", "done")
  /\ reqs["r2"].in.path[2] = ItemOid(1)
  /\ reqs["r2"].in.header = Bearer(AliceToken)
  /\ reqs["r2"].resp = Resp(200, Message("Product deleted"))
  /\ ItemOid(1) \in GoneIds

(***************************************************************************)
(* Two sessions of the owner updating the same items, one the price, the   *)
(* other the name and the priority, as time passes, from the state Seeded. *)
(***************************************************************************)
RenameBody == Body([name |-> Str("Stew"), priority |-> Str("high")])

PriceSession ==
  {Request("POST", <<"products">>, Bearer(AliceToken), SoupBody)}
    \cup {Request("PUT", <<"products", id>>, Bearer(AliceToken), PriceBody) : id \in ItemIds}

RenameSession ==
  {Request("PUT", <<"products", id>>, Bearer(AliceToken), RenameBody) : id \in ItemIds}

NextSessions ==
  \/ Tick(4)
  \/ \E rq \in PriceSession : CreateInsert("r1", rq)
  \/ CreateFind("r1")
  \/ \E rq \in PriceSession : UpdateFind("r1", rq)
  \/ \E rq \in RenameSession : UpdateFind("r2", rq)
  \/ \E s \in Slots : UpdateApply(s)
  \/ \E s \in Slots : UpdateRefetch(s)

SpecSessions == InitItems /\ [][NextSessions]_vars

\* The fields a body sets, and the value it sets a field to.
FieldsSet(body) == {f \in BodyFields : body[f] /= Undefined}

ValueSet(body, f) == IF f = "price" THEN Number(body.price) ELSE body[f]

\* The write of an update with the body turns item i into item j.
WritesOnly(body, i, j) ==
  /\ DOMAIN j = DOMAIN i
  /\ \A f \in DOMAIN i :
       IF f \in FieldsSet(body) THEN j[f] = ValueSet(body, f)
       ELSE f /= "updatedAt" => j[f] = i[f]

\* In slot s an update with the body was answered 200 for the item id.
Succeeded(rs, s, body, id) ==
  /\ rs[s].op = "update" /\ rs[s].pc = "done"
  /\ rs[s].in.body = body /\ rs[s].in.path[2] = id
  /\ rs[s].resp.status = 200

\* C26: the owner's updates with the price and with the name and priority
\* are accepted and answered 200 in every interleaving; the write of each
\* sets its own fields and updatedAt of that item and leaves every other
\* field of every item as it is; and once both were answered for an item,
\* the item has the price of the one, the name and priority of the other,
\* and its remaining fields as created.
C26_NoLostUpdate ==
  [][/\ \A s \in Slots :
          OwnerUpdateArrives(s) => reqs'[s].pc = "updateOne" /\ items' = items
     /\ \A s \in Slots :
          (At(s, "update", "updateOne") /\ reqs'[s] /= reqs[s])
            => \E i \in items : \E j \in items' :
                 /\ i._id = reqs[s].in.path[2]
                 /\ items' = (items \ {i}) \cup {j}
                 /\ WritesOnly(reqs[s].in.body, i, j)
     /\ \A s \in Slots :
          (At(s, "update", "findOne") /\ reqs'[s] /= reqs[s])
            => Answered(reqs'[s], 200) /\ items' = items
     /\ \A id \in ItemIds :
          (Succeeded(reqs', "r1", PriceBody, id) /\ Succeeded(reqs', "r2", RenameBody, id))
            => \E j \in items' :
                 /\ j._id = id
                 /\ j.price = Num(12) /\ j.name = Str("Stew") /\ j.priority = Str("high")
                 /\ j.summary = Str("s") /\ j.description = Str("d")
                 /\ j.category = Str("Starter") /\ j.image = Str(DEFAULT_ITEM_IMAGE)
                 /\ j.ownerId = Alice._id /\ j.userId = Alice._id
                 /\ j.ownerEmail = Alice.email /\ j.createdAt <= j.updatedAt]_vars

\* Both updates of the first item are in flight with their writes done and
\* their responses not yet sent: the item, created at time 0, has the
\* price 12, the name Stew and the priority high.
C26_Witness ==
  /\ At("r1", "update", "findOne")
  /\ At("r2", "update", "findOne")
  /\ reqs["r1"].loc.itemId = ItemOid(1)
  /\ reqs["r2"].loc.itemId = ItemOid(1)
  /\ reqs["r1"].loc.updates.updatedAt /= reqs["r2"].loc.updates.updatedAt
  /\ \E i \in items :
       /\ i._id = ItemOid(1)
       /\ i.price = Num(12) /\ i.name = Str("Stew") /\ i.priority = Str("high")
       /\ i.summary = Str("s") /\ i.createdAt = 0

(***************************************************************************)
(* Persistence calls that fail.  Every handler body is one try block: a    *)
(* rejected call of the MongoDB driver is caught and answered 500 with the *)
(* handler's own message.                                                  *)
(***************************************************************************)
\* The message of the catch block of the handler of op.
CatchMessage(op, in) ==
  CASE op = "register" -> "Unable to register user"
    [] op = "login" -> "Unable to login"
    [] op = "oauth" -> "Unable to sync OAuth user"
    [] op = "listItems" -> "Unable to fetch items"
    [] op = "getItem" -> "Unable to fetch item"
    [] op = "list" -> IF Route(in.method, in.path) = "listMine"
                      THEN "Unable to fetch managed items"
                      ELSE "Unable to fetch products"
    [] op = "create" -> "Unable to create product"
    [] op = "update" -> "Unable to update product"
    [] op = "delete" -> "Unable to delete product"

\* The request passes the guard and the checks that precede the first
\* persistence call of its handler.
reachesPersistence(op, in) ==
  CASE op = "register" -> in.name /= "" /\ in.email /= <<>> /\ in.password /= ""
    [] op = "login" -> in.email /= <<>> /\ in.password /= ""
    [] op = "listItems" -> TRUE
    [] op = "getItem" -> Route(in.method, in.path) = "getItem" /\ ObjectIdIsValid(in.path[2])
    [] op = "list" -> /\ Route(in.method, in.path) \in {"listMine", "listProducts"}
                      /\ authGuard(in.header, now).resp = Null
    [] op = "create" -> /\ Route(in.method, in.path) = "create"
                        /\ authGuard(in.header, now).resp = Null
                        /\ createCheck(in.body) = Null
    [] op \in {"update", "delete"} -> /\ Route(in.method, in.path) = op
                                      /\ authGuard(in.header, now).resp = Null
                                      /\ ObjectIdIsValid(in.path[2])
    [] OTHER -> FALSE

\* A request arrives and the first persistence call of its handler rejects.
FirstCallRejects(s, op, in) ==
  /\ Free(s)
  /\ reachesPersistence(op, in)
  /\ reqs' = [reqs EXCEPT ![s] = Done(op, in, Resp(500, Message(CatchMessage(op, in))))]
  /\ UNCHANGED <<users, items, now, userSeq, itemSeq, tokens>>

Rejects_Unanswered(s) ==
  /\ ~Free(s)
  /\ reqs' = [reqs EXCEPT ![s] = Idle]
  /\ UNCHANGED <<users, items, now, userSeq, itemSeq, tokens>>

\* The persistence call a request in flight awaits rejects.
Rejects(s) ==
  /\ ~Free(s)
  /\ reqs' = [reqs EXCEPT ![s] =
       Done(reqs[s].op, reqs[s].in,
            Resp(500, Message(CatchMessage(reqs[s].op, reqs[s].in))))]
  /\ UNCHANGED <<users, items, now, userSeq, itemSeq, tokens>>

\* findOneAndUpdate resolves without a document: with null (result.value
\* throws and the catch answers) or with a result whose value is null (the
\* check of user._id answers).  The upsert may or may not have been applied.
OAuthUpsertReturnsNothing(s) ==
  /\ At(s, "oauth", "upsert")
  /\ \/ UNCHANGED <<users, userSeq>>
     \/ \E out \in oauthUpsert(users, userSeq, reqs[s].in.body, reqs[s].now, now) :
          /\ out.upserted => userSeq <= MaxUsers
          /\ users' = out.store
          /\ userSeq' = out.seq
  /\ \E resp \in {oauthRespond(Null, now), Resp(500, Message(CatchMessage("oauth", reqs[s].in)))} :
       reqs' = [reqs EXCEPT ![s] = Done("oauth", reqs[s].in, resp)]
  /\ UNCHANGED <<items, now, itemSeq, tokens>>

(***************************************************************************)
(* Every endpoint with calls that return and calls that fail: Alice has    *)
(* registered and her client, slot r1, creates, updates and lists; slot r2 *)
(* carries a registration, a login, an OAuth sync, the public listing, a   *)
(* get and a delete.                                                       *)
(***************************************************************************)
AliceRegistered ==
  /\ users = {Alice}
  /\ items = {}
  /\ now = 0
  /\ userSeq = 2
  /\ itemSeq = 1
  /\ tokens = {AliceToken}
  /\ reqs = [s \in Slots |-> IF s = "r1" THEN Registered(AliceBody, Alice) ELSE Idle]

NoQueryRequest == [method |-> "GET", path |-> <<"items">>, query |-> NoQuery]

\* Alice's client creates items, updates the first one and lists her own.
AliceCalls ==
  {Request("POST", <<"products">>, Bearer(AliceToken), SoupBody),
   Request("PUT", <<"products", ItemOid(1)>>, Bearer(AliceToken), PriceBody),
   Request("GET", <<"products">>, Bearer(AliceToken), NoBody)}

\* A get and Alice's delete of the first item.
OtherCalls ==
  {Request("GET", <<"items", ItemOid(1)>>, NoHeader, NoBody),
   Request("DELETE", <<"items", ItemOid(1)>>, Bearer(AliceToken), NoBody)}

NextFaults ==
  \/ \E rq \in AliceCalls : CreateInsert("r1", rq)
  \/ \E rq \in AliceCalls : UpdateFind("r1", rq)
  \/ \E rq \in AliceCalls : ListMine("r1", rq)
  \/ RegisterFind("r2", BobBody)
  \/ Login("r2", AliceLogin)
  \/ OAuthArrive("r2", INTERNAL_API_KEY, AliceSync)
  \/ ListItems("r2", NoQuery)
  \/ \E rq \in OtherCalls : GetItem("r2", rq)
  \/ \E rq \in OtherCalls : DeleteFind("r2", rq)
  \/ CreateFind("r1")
  \/ UpdateApply("r1")
  \/ UpdateRefetch("r1")
  \/ DeleteApply("r2")
  \/ RegisterInsert("r2")
  \/ OAuthUpsert("r2")
  \/ \E rq \in AliceCalls : \E op \in ItemOps : FirstCallRejects("r1", op, rq)
  \/ \E rq \in OtherCalls : \E op \in ItemOps : FirstCallRejects("r2", op, rq)
  \/ FirstCallRejects("r2", "register", BobBody)
  \/ FirstCallRejects("r2", "login", AliceLogin)
  \/ FirstCallRejects("r2", "listItems", NoQueryRequest)
  \/ \E s \in Slots : Rejects(s)
  \/ OAuthUpsertReturnsNothing("r2")

\* The persistence call a request in flight awaits returns, and the handler
\* runs on to its next await or to its response.
Returns(s) ==
  \/ RegisterInsert(s)
  \/ OAuthUpsert(s)
  \/ CreateFind(s)
  \/ DeleteApply(s)
  \/ UpdateApply(s)
  \/ UpdateRefetch(s)

\* Every awaited persistence call returns or fails.
SpecFaults ==
  /\ AliceRegistered
  /\ [][NextFaults]_vars
  /\ \A s \in Slots : WF_vars(Returns(s) \/ Rejects(s) \/ OAuthUpsertReturnsNothing(s))

(***************************************************************************)
(* Properties of failing persistence calls.                                *)
(***************************************************************************)
GenericMessages ==
  {"Unable to register user", "Unable to login", "Unable to sync OAuth user",
   "Failed to retrieve user after sync", "Unable to fetch items", "Unable to fetch item",
   "Unable to fetch managed items", "Unable to fetch products",
   "Unable to create product", "Unable to update product", "Unable to delete product"}

\* The request record r is answered 500 with one of the fixed messages and
\* nothing else.
InternalError(r) ==
  /\ r.pc = "done"
  /\ r.resp.status = 500
  /\ DOMAIN r.resp.body = {"message"}
  /\ r.resp.body.message \in GenericMessages

\* The awaits a request in flight has yet to pass, at most.
AwaitsLeft(r) ==
  CASE r.pc = "updateOne" -> 2
    [] r.pc \in {"idle", "done"} -> 0
    [] OTHER -> 1

\* In this step a persistence call of the request in slot s fails, or the
\* upsert of an OAuth sync returns no document.
CallFails(s) ==
  \/ Rejects(s)
  \/ OAuthUpsertReturnsNothing(s)
  \/ FirstCallRejects(s, reqs'[s].op, reqs'[s].in)

\* C24: a request in flight stays the same request until it is answered,
\* each of its steps passes one await, and it is answered once, with a
\* status; a step in which a persistence call fails, or in which the upsert
\* of an OAuth sync returns no document, answers 500 with a fixed message,
\* as does an update whose final findOne finds no document; a request in
\* flight can always run on when its call returns; and, every call
\* returning or failing, every request in flight is answered.
C24_AlwaysAnswered ==
  /\ [][\A s \in Slots :
          /\ (~Free(s) /\ reqs'[s] /= reqs[s])
               => /\ reqs'[s].op = reqs[s].op
                  /\ reqs'[s].in = reqs[s].in
                  /\ AwaitsLeft(reqs'[s]) < AwaitsLeft(reqs[s])
          /\ (reqs'[s] /= reqs[s] /\ reqs'[s].pc = "done")
               => /\ DOMAIN reqs'[s] = {"op", "pc", "in", "resp"}
                  /\ reqs'[s].resp.status \in {200, 201, 400, 401, 403, 404, 409, 500}
          /\ CallFails(s) => InternalError(reqs'[s])
          /\ (/\ At(s, "update", "findOne")
              /\ reqs'[s] /= reqs[s]
              /\ ~\E i \in items : i._id = reqs[s].loc.itemId)
               => InternalError(reqs'[s])]_vars
  /\ [](\A s \in Slots : ~Free(s) => ENABLED Returns(s))
  /\ \A s \in Slots : ~Free(s) ~> reqs[s].pc = "done"

\* The updateOne of Alice's update failed: the update was answered 500
\* Unable to update product and the item is stored with its price; and an
\* OAuth sync whose upsert returned no document was answered 500.
C24_Witness ==
  /\ At("r1", "update", "done")
  /\ reqs["r1"].resp = Resp(500, Message("Unable to update product"))
  /\ \E i \in items : i._id = reqs["r1"].in.path[2] /\ i.price = Num(5)
  /\ At("r2", "oauth", "done")
  /\ reqs["r2"].resp = Resp(500, Message("Failed to retrieve user after sync"))

====
